---- MODULE Spec2Model ----
(***************************************************************************)
(* Extended OpenAI Conversation: the tool-calling orchestration loop of    *)
(* one conversation turn (conversation.py, tools_orchestrator.py) and the  *)
(* native service executor (tools_builtin.py).                             *)
(*                                                                         *)
(* Time is counted in ticks of the monotonic clock.  Texts are sequences   *)
(* of tokens; the text of the r-th model reply is <<"reply", r>> so that   *)
(* the reply a final text comes from can be told.  In a tool result,       *)
(* <name> stands for the name of the call the result belongs to.           *)
(***************************************************************************)
EXTENDS Integers, Sequences, FiniteSets, TLC

\* ------------------------------------------------------------------ bounds
MaxChain == 2        \* max_tool_chain ranges over 1..MaxChain
MaxToolCalls == 2    \* max_tool_calls ranges over 0..MaxToolCalls
MaxReplyCalls == 2   \* tool calls in one model reply: 0..MaxReplyCalls
CallTimeout == 1     \* per_call_timeout, in ticks
MaxItems == 2        \* service items in one execute_service call
MaxDecls == 2        \* user tool declarations in the options
CapSpread == 1       \* result caps are MinResultCap and MinResultCap + CapSpread
LenSpread == 2       \* result lengths reach LenSpread under and over the caps

\* ------------------------------------------------------------- vocabulary
NoName == "<none>"
ExecutorKinds == {"native", "script", "template", "rest", "scrape",
                  "composite", "sqlite"}
BridgeKinds == {"memory", "mcp"}
Kinds == ExecutorKinds \cup BridgeKinds
\* Tools of the registry: one tool per runtime type, named after its type.
RuntimeMap == [k \in Kinds |-> k]
\* Names a model reply may carry: registered tools, an unregistered tool,
\* and a call without a name.
CallNames == Kinds \cup {"ghost", NoName}
\* Shapes of the raw arguments of a call.
ArgShapes == {"valid", "badjson", "nonobject", "invalid"}

Empty == <<>>
ReplyText(r) == <<"reply", ToString(r)>>
Suffix == <<"Tool chain limit reached; unable to continue.">>
Apology == <<"Sorry, I could not produce a reply.">>
HaltedDepth == <<"Tool execution halted: maximum depth reached.">>
MsgMaxCalls == <<"Maximum tool calls exceeded">>
MsgTimeBudget == <<"Tool chain time budget exceeded">>
MsgUnknown == <<"Unknown tool '<name>'">>
MsgInvalidArgs == <<"Invalid arguments for <name>">>
MsgTimedOut == <<"Tool <name> timed out">>
MsgExecutor == <<"<str(err)>">>
MsgFailedBare == <<"Tool <name> failed">>
MsgFailedExc == <<"Tool <name> failed:", "<err>">>
ResultText == <<"<result>">>
\* conversation.py: output = f"Tool {name} failed: {err}"
FailText(msg) == <<"Tool <name> failed:">> \o msg

VARIABLES
  cfg,         \* options of the turn: [api, N, K]
  pc,          \* position of the message handler
  depth,       \* the flow's local depth counter
  call_count,  \* ToolsOrchestrator._call_count
  started,     \* ToolsOrchestrator._started
  clock,       \* time.monotonic(), see Tick
  requests,    \* model requests issued so far in the turn
  reply,       \* the latest model reply: [n, text]
  idx,         \* position in the calls of the reply (1-based)
  cur,         \* position of the call whose executor is running, else 0
  outputs,     \* results of the current round, in order
  outcome,     \* "pending" | "ok" | "err" | "escaped"
  finalText,   \* speech of the returned result
  failure,     \* step whose exception ended the turn, or "none"
  limitHit,    \* requests issued when the depth limit was met, else 0
  budgetHit,   \* requests issued when a budget was first found exceeded, else 0
  lastExec,    \* how the executor run that has just ended ended, else "none"
  nat,         \* NativeFunctionExecutor.execute_service: [items, i, status, ...]
  bus,         \* service calls dispatched to hass.services.async_call
  reg,         \* ToolsOrchestrator.__init__: the registry under construction
  turns,       \* two interleaved turns of one agent entity
  fn           \* one call of a helper function: its arguments and its result

turnVars == <<cfg, pc, depth, call_count, started, clock, requests, reply, idx,
              cur, outputs, outcome, finalText, failure,
              limitHit, budgetHit, lastExec>>
natVars == <<nat, bus>>
regVars == <<reg>>
twoVars == <<turns>>
fnVars == <<fn>>
\* What a step of the turn, of the native executor, of the registry
\* construction, of the two interleaved turns leaves alone.
offTurn == <<natVars, regVars, twoVars, fnVars>>
offNative == <<turnVars, regVars, twoVars, fnVars>>
offRegistry == <<turnVars, natVars, twoVars, fnVars>>
offTwo == <<turnVars, natVars, regVars, fnVars>>
offFn == <<turnVars, natVars, regVars, twoVars>>
vars == <<turnVars, natVars, regVars, twoVars, fnVars>>


\* ------------------------------------------------------- pure operators
Max(a, b) == IF a >= b THEN a ELSE b

\* Off by one: the budget check passes while count = maxCalls.
CallBudgetExceeded_OffByOne(count, maxCalls) == maxCalls # 0 /\ count > maxCalls

\* ToolsOrchestrator._ensure_call_budget: raises when this holds.
CallBudgetExceeded(count, maxCalls) == maxCalls # 0 /\ count >= maxCalls

\* The check refuses already when the elapsed time equals the budget.
TimeBudgetExceeded_AtLimit(now, start, timeout, chain) ==
  /\ timeout > 0
  /\ (now - start) >= timeout * Max(1, chain)

\* ToolsOrchestrator._ensure_time_budget: raises when this holds.
TimeBudgetExceeded(now, start, timeout, chain) ==
  /\ timeout > 0
  /\ (now - start) > timeout * Max(1, chain)

\* The clock after d more ticks.  The clock is read by _ensure_time_budget
\* alone, which tells times past the budget apart no further, so the clock
\* stops one tick past the budget.
Tick(now, d, start, timeout, chain) ==
  LET past == start + timeout * Max(1, chain) + 1 IN
  IF now + d >= past THEN past ELSE now + d

\* The loops' test "depth >= orchestrator.max_chain_depth".
DepthLimitReached(d, chain) == d >= chain

\* ToolsOrchestrator._prepare_arguments seen from execute_tool_call:
\*   "ok"  - a payload is returned,
\*   "tee" - json.JSONDecodeError or InvalidFunction, which execute_tool_call
\*           turns into ToolExecutionError("Invalid arguments ..."),
\*   "raw" - another exception (TypeError from {**data} on a non-mapping,
\*           vol.Invalid raised by the template, rest and scrape to_arguments),
\*           which execute_tool_call does not catch.
PrepareArguments(kind, shape) ==
  CASE shape = "badjson" -> "tee"
    [] shape = "nonobject" -> IF kind \in BridgeKinds THEN "ok" ELSE "raw"
    [] shape = "invalid" ->
         IF kind \in BridgeKinds THEN "ok"
         ELSE IF kind \in {"template", "rest", "scrape"} THEN "raw"
         ELSE "tee"
    [] OTHER -> "ok"

\* How an executor run can end inside asyncio.wait_for.
ExecEnds == {"ok", "timeout", "ha_error", "ha_silent", "exception"}

\* Without the final "except Exception" branch an unexpected executor
\* exception is no ToolExecutionError.
ExecRaises_NoGenericCatch(how) ==
  CASE how = "ok" -> "return"
    [] how \in {"timeout", "ha_error", "ha_silent"} -> "tee"
    [] OTHER -> "raw"

\* Without the "except asyncio.TimeoutError" branch the timeout is no
\* ToolExecutionError.
ExecRaises_TimeoutEscapes(how) ==
  CASE how = "ok" -> "return"
    [] how = "timeout" -> "raw"
    [] OTHER -> "tee"

\* execute_tool_call after wait_for: "return" when it returns the text, "tee"
\* when it raises ToolExecutionError (every except branch re-raises as one).
ExecRaises(how) ==
  CASE how = "ok" -> "return"
    [] how = "timeout" -> "tee"
    [] how \in {"ha_error", "ha_silent"} -> "tee"
    [] OTHER -> "tee"

\* The text execute_tool_call records and returns or raises.
ExecMessage(how) ==
  CASE how = "ok" -> ResultText
    [] how = "timeout" -> MsgTimedOut
    [] how = "ha_error" -> MsgExecutor
    [] how = "ha_silent" -> MsgFailedBare
    [] OTHER -> MsgFailedExc

\* The flows' "except ToolExecutionError": what a call's outcome becomes.
\*   "output" - a result item is appended, "abort" - the exception leaves the loop.
LoopCatch(raised) == IF raised \in {"return", "tee"} THEN "output" ELSE "abort"

\* The output string the flow appends for a call.
OutputText(raised, msg) ==
  IF raised = "return" THEN msg ELSE FailText(msg)

\* execute_tool_call counting only the invocations whose executor starts.
EnterToolCall_CountsStarts(name, shape, count, now, start, c) ==
  IF CallBudgetExceeded(count, c.K)
    THEN [raised |-> "tee", msg |-> MsgMaxCalls, counted |-> FALSE, budget |-> TRUE]
  ELSE IF TimeBudgetExceeded(now, start, CallTimeout, c.N)
    THEN [raised |-> "tee", msg |-> MsgTimeBudget, counted |-> FALSE, budget |-> TRUE]
  ELSE IF name \notin DOMAIN RuntimeMap
    THEN [raised |-> "tee", msg |-> MsgUnknown, counted |-> FALSE, budget |-> FALSE]
  ELSE LET p == PrepareArguments(RuntimeMap[name], shape) IN
    CASE p = "tee" ->
           [raised |-> "tee", msg |-> MsgInvalidArgs, counted |-> FALSE, budget |-> FALSE]
      [] p = "raw" ->
           [raised |-> "raw", msg |-> Empty, counted |-> FALSE, budget |-> FALSE]
      [] OTHER ->
           [raised |-> "run", msg |-> Empty, counted |-> TRUE, budget |-> FALSE]

\* execute_tool_call up to asyncio.wait_for.
EnterToolCall(name, shape, count, now, start, c) ==
  IF CallBudgetExceeded(count, c.K)
    THEN [raised |-> "tee", msg |-> MsgMaxCalls, counted |-> FALSE, budget |-> TRUE]
  ELSE IF TimeBudgetExceeded(now, start, CallTimeout, c.N)
    THEN [raised |-> "tee", msg |-> MsgTimeBudget, counted |-> FALSE, budget |-> TRUE]
  ELSE IF name \notin DOMAIN RuntimeMap
    THEN [raised |-> "tee", msg |-> MsgUnknown, counted |-> TRUE, budget |-> FALSE]
  ELSE LET p == PrepareArguments(RuntimeMap[name], shape) IN
    CASE p = "tee" ->
           [raised |-> "tee", msg |-> MsgInvalidArgs, counted |-> TRUE, budget |-> FALSE]
      [] p = "raw" ->
           [raised |-> "raw", msg |-> Empty, counted |-> TRUE, budget |-> FALSE]
      [] OTHER ->
           [raised |-> "run", msg |-> Empty, counted |-> TRUE, budget |-> FALSE]

\* response_text_from_responses_result: the reply's text, an apology
\* placeholder when it is empty.
ResponseText(r) == IF r.text = Empty THEN Apology ELSE r.text

\* _err: "Sorry, I had a problem: ..."
ErrText == <<"Sorry, I had a problem">>

Configs == [api : {"chat", "responses"}, N : 1..MaxChain, K : 0..MaxToolCalls]

\* Tool registry.  A declaration is one {spec, function} entry: shape tells
\* whether the entry, its spec and its function are mappings, name is
\* spec.name, type is function.type, tag stands for the rest of the entry's
\* content (description, parameters, executor fields).
NoType == "<no type>"
DeclNames == {"execute_service", "memory_write", NoName}
DeclTypes == {"native", "bogus", NoType}
DeclTags == {"d1", "d2"}
BadEntry == [shape |-> "nondict", name |-> NoName, type |-> NoType,
             tag |-> "d1"]
UserDecls == {BadEntry} \cup [shape : {"dict"}, name : DeclNames,
                              type : DeclTypes, tag : DeclTags]
UserLists == UNION {[1..n -> UserDecls] : n \in 0..MaxDecls}
\* const.DEFAULT_FUNCTIONS, two of its eight entries.
DefaultFunctions ==
  << [shape |-> "dict", name |-> "execute_service", type |-> "native",
      tag |-> "builtin"],
     [shape |-> "dict", name |-> "rest", type |-> "rest", tag |-> "builtin"] >>
\* memory_tools.MEMORY_TOOL_SPECS: a fixed list of named specs.
MemoryToolSpecs == << [name |-> "memory_write", tag |-> "memory"] >>
\* MCPBridge.describe_tools(): the specs the upstream servers announce; the
\* bridge is available when there is at least one.
McpToolLists == {<<>>, << [name |-> "mcp_tool", tag |-> "mcp"] >>,
                 << [name |-> "execute_service", tag |-> "mcp"] >>}
Unset == [set |-> FALSE, list |-> <<>>]
NoProjection == [made |-> FALSE, raised |-> FALSE, tools |-> <<>>]
RegIdle == [status |-> "off", raw |-> <<>>, functions |-> Unset,
            rejected |-> FALSE, memory |-> FALSE, memory_url |-> FALSE,
            mcp |-> <<>>, specs |-> <<>>, runtime |-> <<>>,
            chat |-> NoProjection, resp |-> NoProjection]

\* Two invocations of _async_handle_message on one entity.  heap holds the
\* ToolsOrchestrator objects (their counters), frame the locals of each
\* invocation: o refers to the orchestrator the invocation constructed, depth
\* and msgs (the length of the messages list) are locals of the flow.  ran
\* counts the executors the invocation itself started, starved records a
\* call-budget refusal met before the invocation started max_tool_calls
\* executors, last names the invocation that took the latest step.
TurnSlots == {1, 2}
OrchFresh == [call_count |-> 0]
FrameIdle == [pc |-> "idle", o |-> 0, depth |-> 0, left |-> 0, msgs |-> 0,
              ran |-> 0, starved |-> FALSE]
TwoIdle == [K |-> 0, N |-> 1, heap |-> [o \in TurnSlots |-> OrchFresh],
            frame |-> [t \in TurnSlots |-> FrameIdle], last |-> 0]
FnIdle == [op |-> "none"]
NatIdle == [tool |-> "none", items |-> <<>>, i |-> 0, status |-> "off",
            result |-> <<>>, error |-> "none", named |-> {}]


\* ------------------------------------------------------------ turn: Init
TurnIdle(c) ==
  /\ cfg = c
  /\ pc = "idle"
  /\ depth = 0
  /\ call_count = 0
  /\ started = 0
  /\ clock = 0
  /\ requests = 0
  /\ reply = [n |-> 0, text |-> Empty]
  /\ idx = 0
  /\ cur = 0
  /\ outputs = <<>>
  /\ outcome = "pending"
  /\ finalText = Empty
  /\ failure = "none"
  /\ limitHit = 0
  /\ budgetHit = 0
  /\ lastExec = "none"

\* _handle_responses_tool_calls seen from its own entry: a fresh orchestrator
\* and the first request in flight (_run_responses_flow line 292).  The
\* handler itself does not get this far, see SendRequest.
LoopEntry(c) ==
  /\ c.api = "responses"
  /\ cfg = c
  /\ pc = "await_first"
  /\ depth = 0
  /\ call_count = 0
  /\ started = 0
  /\ clock = 0
  /\ requests = 1
  /\ reply = [n |-> 0, text |-> Empty]
  /\ idx = 0
  /\ cur = 0
  /\ outputs = <<>>
  /\ outcome = "pending"
  /\ finalText = Empty
  /\ failure = "none"
  /\ limitHit = 0
  /\ budgetHit = 0
  /\ lastExec = "none"

Init ==
  /\ \E c \in Configs : TurnIdle(c) \/ LoopEntry(c)
  /\ nat = NatIdle
  /\ bus = <<>>
  /\ reg = RegIdle
  /\ turns = TwoIdle
  /\ fn = FnIdle

\* ---------------------------------------------------------- turn: steps
\* The handler returns _ok(text) / _err(msg), or an exception leaves it.
ReturnOk(text) ==
  /\ outcome' = "ok"
  /\ finalText' = text
  /\ pc' = "done"
  /\ failure' = failure

ReturnErr(step) ==
  /\ outcome' = "err"
  /\ finalText' = ErrText
  /\ pc' = "done"
  /\ failure' = step

Escape(step) ==
  /\ outcome' = "escaped"
  /\ finalText' = finalText
  /\ pc' = "done"
  /\ failure' = step

\* _async_handle_message: ToolsOrchestrator(...) and orchestrator.reset(),
\* outside every try block.
ConstructOrchestrator ==
  /\ pc = "idle"
  /\ \/ /\ pc' = "client"
        /\ call_count' = 0
        /\ started' = clock
        /\ UNCHANGED <<outcome, finalText, failure>>
     \/ /\ Escape("orchestrator")
        /\ UNCHANGED <<call_count, started>>
  /\ UNCHANGED <<cfg, depth, clock, requests, reply, idx, cur, outputs,
                 limitHit, budgetHit, lastExec>>
  /\ UNCHANGED offTurn

\* _async_handle_message: build_async_client(...), outside every try block;
\* it raises HomeAssistantError when the SDK client cannot be built.
BuildClient ==
  /\ pc = "client"
  /\ \/ /\ pc' = "send"
        /\ UNCHANGED <<outcome, finalText, failure>>
     \/ Escape("client")
  /\ UNCHANGED <<cfg, depth, call_count, started, clock, requests, reply, idx,
                 cur, outputs, limitHit, budgetHit, lastExec>>
  /\ UNCHANGED offTurn

AwaitPcs == {"await_chat", "await_first", "await_loop", "await_halt"}

\* client.chat.completions.create(**kwargs) / client.responses.create(...)
\* is called and awaited.
IssueRequest(await) ==
  /\ requests < MaxChain + 3
  /\ requests' = requests + 1
  /\ pc' = await

\* Keyword parameters of tools_web_search.build_responses_web_search_tool
\* (hass, options, *, model), and the keywords that
\* ToolsOrchestrator.conversation_tools_for_responses passes to it.
WebSearchToolKeywords == {"model"}
ProjectionCallKeywords == {"model", "tool_type_override"}
\* A Python call raises TypeError for a keyword the callee does not declare.
CallRaisesTypeError(passed, accepted) == ~(passed \subseteq accepted)
\* conversation_tools_for_responses raises before it returns a tool list.
ToolsForResponsesRaises ==
  CallRaisesTypeError(ProjectionCallKeywords, WebSearchToolKeywords)

\* The flow's first request.  Chat: line 451 at depth 0.  Responses:
\* _run_responses_flow builds the tool list first (line 286), whose TypeError
\* is caught by "except Exception" in _async_handle_message, else line 292.
SendRequest ==
  /\ pc = "send"
  /\ IF cfg.api = "chat"
       THEN /\ IssueRequest("await_chat")
            /\ UNCHANGED <<outcome, finalText, failure>>
     ELSE IF ToolsForResponsesRaises
       THEN /\ ReturnErr("tools_projection")
            /\ UNCHANGED requests
     ELSE /\ IssueRequest("await_first")
          /\ UNCHANGED <<outcome, finalText, failure>>
  /\ UNCHANGED <<cfg, depth, call_count, started, clock, reply, idx, cur,
                 outputs, limitHit, budgetHit, lastExec>>
  /\ UNCHANGED offTurn

\* The awaited request returns a reply.  In the Responses loop the depth is
\* incremented after the await (line 411); the reply to the halted submission
\* is returned as the turn's result (line 353).
ModelReplies ==
  /\ pc \in AwaitPcs
  /\ \E lat \in {0, 1}, n \in 0..MaxReplyCalls, hasText \in BOOLEAN :
       LET r == [n |-> n, text |-> IF hasText THEN ReplyText(requests) ELSE Empty] IN
       /\ clock' = Tick(clock, lat, started, CallTimeout, cfg.N)
       /\ reply' = r
       /\ depth' = IF pc = "await_loop" THEN depth + 1 ELSE depth
       /\ IF pc = "await_halt"
            THEN ReturnOk(ResponseText(r))
            ELSE /\ pc' = "inspect"
                 /\ UNCHANGED <<outcome, finalText, failure>>
  /\ UNCHANGED <<cfg, call_count, started, requests, idx, cur, outputs,
                 limitHit, budgetHit, lastExec>>
  /\ UNCHANGED offTurn

\* The awaited request raises: the exception leaves the flow and is caught by
\* "except Exception" in _async_handle_message, which returns _err.
ModelFails ==
  /\ pc \in AwaitPcs
  /\ \E lat \in {0, 1} : clock' = Tick(clock, lat, started, CallTimeout, cfg.N)
  /\ ReturnErr("model_request")
  /\ UNCHANGED <<cfg, depth, call_count, started, requests, reply, idx, cur,
                 outputs, limitHit, budgetHit,
                 lastExec>>
  /\ UNCHANGED offTurn

\* _run_chat_flow, lines 452-498: inspect the completion.
InspectChat ==
  /\ pc = "inspect"
  /\ cfg.api = "chat"
  /\ IF reply.n = 0
       THEN /\ ReturnOk(reply.text)
            /\ UNCHANGED <<idx, outputs, limitHit, requests>>
     ELSE IF DepthLimitReached(depth, cfg.N)
       THEN /\ ReturnOk(IF reply.text # Empty THEN reply.text \o Suffix ELSE Suffix)
            /\ limitHit' = requests
            /\ UNCHANGED <<idx, outputs, requests>>
     ELSE /\ pc' = "tools"
          /\ idx' = 1
          /\ outputs' = <<>>
          /\ UNCHANGED <<outcome, finalText, failure, limitHit, requests>>
  /\ UNCHANGED <<cfg, depth, call_count, started, clock, reply, cur,
                 budgetHit, lastExec>>
  /\ UNCHANGED offTurn

\* _handle_responses_tool_calls, lines 317-355: inspect the result; at the
\* depth limit the halted outputs go out in one more request (line 348).
InspectResponses ==
  /\ pc = "inspect"
  /\ cfg.api = "responses"
  /\ IF reply.n = 0
       THEN /\ ReturnOk(ResponseText(reply))
            /\ UNCHANGED <<idx, outputs, limitHit, requests>>
     ELSE IF DepthLimitReached(depth, cfg.N)
       THEN /\ outputs' = [i \in 1..reply.n |-> [idx |-> i, text |-> HaltedDepth]]
            /\ IssueRequest("await_halt")
            /\ limitHit' = requests
            /\ UNCHANGED <<idx, outcome, finalText, failure>>
     ELSE /\ pc' = "tools"
          /\ idx' = 1
          /\ outputs' = <<>>
          /\ UNCHANGED <<outcome, finalText, failure, limitHit, requests>>
  /\ UNCHANGED <<cfg, depth, call_count, started, clock, reply, cur,
                 budgetHit, lastExec>>
  /\ UNCHANGED offTurn


\* The loops' "if not name: continue": a call without a name gets no result.
SkipCall ==
  /\ pc = "tools"
  /\ idx <= reply.n
  /\ idx' = idx + 1
  /\ lastExec' = "none"
  /\ UNCHANGED <<cfg, pc, depth, call_count, started, clock, requests, reply,
                 cur, outputs, outcome, finalText, failure,
                 limitHit, budgetHit>>
  /\ UNCHANGED offTurn

\* The executor is started as a task and not awaited: the loop moves on to
\* the next call while the execution is outstanding.
ToolStart_FanOut ==
  /\ pc = "tools"
  /\ idx <= reply.n
  /\ \E name \in CallNames \ {NoName}, shape \in ArgShapes :
       LET e == EnterToolCall(name, shape, call_count, clock, started, cfg) IN
       /\ call_count' = IF e.counted THEN call_count + 1 ELSE call_count
       /\ budgetHit' = IF e.budget /\ budgetHit = 0 THEN requests ELSE budgetHit
       /\ IF e.raised = "run"
            THEN /\ cur' = idx
                 /\ idx' = idx + 1
                 /\ UNCHANGED <<pc, outputs, outcome, finalText, failure>>
          ELSE IF LoopCatch(e.raised) = "output"
            THEN /\ outputs' = Append(outputs,
                        [idx |-> idx, text |-> OutputText(e.raised, e.msg)])
                 /\ idx' = idx + 1
                 /\ UNCHANGED <<pc, cur, outcome, finalText, failure>>
          ELSE /\ ReturnErr("tool_exception")
               /\ UNCHANGED <<idx, cur, outputs>>
  /\ lastExec' = "none"
  /\ UNCHANGED <<cfg, depth, started, clock, requests, reply, limitHit>>
  /\ UNCHANGED offTurn

\* One named call enters orchestrator.execute_tool_call (lines 262-286): the
\* budget checks, the count, the lookup and the argument preparation.  Either
\* the executor starts, or ToolExecutionError is raised and the loop appends
\* "Tool <name> failed: ...", or another exception leaves the loop.
ToolStart ==
  /\ pc = "tools"
  /\ idx <= reply.n
  /\ \E name \in CallNames \ {NoName}, shape \in ArgShapes :
       LET e == EnterToolCall(name, shape, call_count, clock, started, cfg) IN
       /\ call_count' = IF e.counted THEN call_count + 1 ELSE call_count
       /\ budgetHit' = IF e.budget /\ budgetHit = 0 THEN requests ELSE budgetHit
       /\ IF e.raised = "run"
            THEN /\ pc' = "running"
                 /\ cur' = idx
                 /\ UNCHANGED <<idx, outputs, outcome, finalText, failure>>
          ELSE IF LoopCatch(e.raised) = "output"
            THEN /\ outputs' = Append(outputs,
                        [idx |-> idx, text |-> OutputText(e.raised, e.msg)])
                 /\ idx' = idx + 1
                 /\ UNCHANGED <<pc, cur, outcome, finalText, failure>>
          ELSE /\ ReturnErr("tool_exception")
               /\ UNCHANGED <<idx, cur, outputs>>
  /\ lastExec' = "none"
  /\ UNCHANGED <<cfg, depth, started, clock, requests, reply, limitHit>>
  /\ UNCHANGED offTurn

\* asyncio.wait_for(self._invoke(...), timeout) ends (lines 282-327): the
\* executor returned, was cancelled at the timeout, or raised.
ToolFinish ==
  /\ pc = "running"
  /\ \E how \in ExecEnds, d \in 0..(CallTimeout - 1) :
       LET raised == ExecRaises(how)
           msg == ExecMessage(how) IN
       /\ clock' = Tick(clock, IF how = "timeout" THEN CallTimeout ELSE d,
                        started, CallTimeout, cfg.N)
       /\ lastExec' = how
       /\ IF LoopCatch(raised) = "output"
            THEN /\ outputs' = Append(outputs,
                        [idx |-> cur, text |-> OutputText(raised, msg)])
                 /\ idx' = idx + 1
                 /\ pc' = "tools"
                 /\ UNCHANGED <<outcome, finalText, failure>>
            ELSE /\ ReturnErr("tool_exception")
                 /\ UNCHANGED <<idx, outputs>>
  /\ cur' = 0
  /\ UNCHANGED <<cfg, depth, call_count, started, requests, reply, limitHit, budgetHit>>
  /\ UNCHANGED offTurn

\* The chat loop without its "depth += 1".
RoundEnd_NoIncrement ==
  /\ pc = "tools"
  /\ idx > reply.n
  /\ IF cfg.api = "chat"
       THEN /\ UNCHANGED depth
            /\ IssueRequest("await_chat")
            /\ outputs' = <<>>
            /\ UNCHANGED <<outcome, finalText, failure>>
     ELSE IF outputs = <<>>
       THEN /\ ReturnOk(ResponseText(reply))
            /\ UNCHANGED <<depth, requests, outputs>>
     ELSE /\ IssueRequest("await_loop")
          /\ outputs' = <<>>
          /\ UNCHANGED <<depth, outcome, finalText, failure>>
  /\ lastExec' = "none"
  /\ UNCHANGED <<cfg, call_count, started, clock, reply, idx, cur, limitHit,
                 budgetHit>>
  /\ UNCHANGED offTurn

\* End of the for loop over the calls.  Chat (lines 539-544, 451): depth += 1
\* and the next request.  Responses (lines 395-406): return the result when
\* no output was produced, else submit the outputs in the next request.
RoundEnd ==
  /\ pc = "tools"
  /\ idx > reply.n
  /\ IF cfg.api = "chat"
       THEN /\ depth' = depth + 1
            /\ IssueRequest("await_chat")
            /\ outputs' = <<>>
            /\ UNCHANGED <<outcome, finalText, failure>>
     ELSE IF outputs = <<>>
       THEN /\ ReturnOk(ResponseText(reply))
            /\ UNCHANGED <<depth, requests, outputs>>
     ELSE /\ IssueRequest("await_loop")
          /\ outputs' = <<>>
          /\ UNCHANGED <<depth, outcome, finalText, failure>>
  /\ lastExec' = "none"
  /\ UNCHANGED <<cfg, call_count, started, clock, reply, idx, cur, limitHit,
                 budgetHit>>
  /\ UNCHANGED offTurn

Next ==
  \/ ConstructOrchestrator
  \/ BuildClient
  \/ SendRequest
  \/ ModelReplies
  \/ ModelFails
  \/ InspectChat
  \/ InspectResponses
  \/ SkipCall
  \/ ToolStart
  \/ ToolFinish
  \/ RoundEnd

Spec == Init /\ [][Next]_vars

\* The event loop resumes every coroutine whose awaited operation has ended,
\* and every awaited operation ends (reply, error or timeout).
FairSpec == Spec /\ WF_vars(Next)


\* --------------------------------------------------- native executor
\* The Home Assistant instance the executor acts on.  Exposure settings do
\* not change while one tool call runs, so the turn's exposed-entity list and
\* async_should_expose agree.
None == "<None>"
NoEntity == {None}      \* entity_id is None (absent from the call)
Entities == {"light.kitchen", "lock.front_door", "sensor.gone"}
Loaded == {"light.kitchen", "lock.front_door"}     \* hass.states.get(e) is not None
Exposed == {"light.kitchen"}                       \* exposed to the 'conversation' assistant
ShouldExpose(e) == e \in Exposed
\* Area and device selectors with the registry entities they resolve to.
\* NoSelector is an area_id that is given but empty (""): it is not None, and
\* it is falsy where the code tests "area_id or device_id".
NoSelector == "<empty>"
Selectors == {"area:kitchen", "area:hall", "device:lock", "area:attic",
              NoSelector}
Truthy(sel) == sel \notin {None, NoSelector}
Members(sel) ==
  CASE sel = "area:kitchen" -> {"light.kitchen"}
    [] sel = "area:hall" -> {"light.kitchen", "lock.front_door"}
    [] sel = "device:lock" -> {"lock.front_door", "sensor.gone"}
    [] OTHER -> {}

\* One service_argument: entity is None or the list of entity ids (a comma
\* separated string is split into the list), sel is None (neither area_id nor
\* device_id is given) or the area/device id given,
\* service tells whether hass.services.has_service(domain, service).
EntityArgs == {{}, {"light.kitchen"}, {"lock.front_door"},
               {"light.kitchen", "lock.front_door"}, {"sensor.gone"}}
Items == [entity : {NoEntity} \cup EntityArgs, sel : {None} \cup Selectors,
          service : BOOLEAN]
HistoryItems == {it \in Items : it.entity # NoEntity /\ it.sel = None /\ it.service}

\* FunctionExecutor.validate_entity_ids: "ok", or the exception raised with the
\* entity ids it names.
ValidateEntityIds(ids) ==
  IF \E e \in ids : e \notin Loaded
    THEN [exc |-> "EntityNotFound", names |-> ids]
  ELSE IF ids \ Exposed # {}
    THEN [exc |-> "EntityNotExposed", names |-> ids \ Exposed]
  ELSE [exc |-> "ok", names |-> {}]

\* Lines 312-349: targets of an area/device selector, loaded entities only.
ResolveTargets(sel) == {e \in Members(sel) : e \in Loaded}

\* NativeFunctionExecutor.execute_service_single up to the service call:
\*   "raise"    - an exception leaves the executor,
\*   "payload"  - a structured {"error": ...} payload is returned,
\*   "dispatch" - hass.services.async_call is awaited with the target;
\*                selector is the area/device id left in service_data.
ExecuteServiceSingle(it) ==
  LET ids == IF it.entity = NoEntity THEN {} ELSE it.entity
      v == ValidateEntityIds(ids)
      targets == ResolveTargets(it.sel)
      hidden == {e \in targets : ~ShouldExpose(e)}
  IN
  IF it.entity = NoEntity /\ it.sel = None
    THEN [kind |-> "raise", exc |-> "CallServiceError", names |-> {},
          target |-> {}, selector |-> None]
  ELSE IF ~it.service
    THEN [kind |-> "raise", exc |-> "ServiceNotFound", names |-> {},
          target |-> {}, selector |-> None]
  ELSE IF v.exc # "ok"
    THEN [kind |-> "raise", exc |-> v.exc, names |-> v.names,
          target |-> {}, selector |-> None]
  ELSE IF ids # {}
    THEN [kind |-> "dispatch", exc |-> "none", names |-> {},
          target |-> ids, selector |-> None]
  ELSE IF Truthy(it.sel)
    THEN IF hidden # {}
           THEN [kind |-> "payload", exc |-> "hidden", names |-> hidden,
                 target |-> {}, selector |-> None]
         ELSE IF targets = {}
           THEN [kind |-> "payload", exc |-> "no_targets", names |-> {},
                 target |-> {}, selector |-> None]
         ELSE [kind |-> "dispatch", exc |-> "none", names |-> {},
               target |-> targets, selector |-> None]
  ELSE [kind |-> "dispatch", exc |-> "none", names |-> {},
        target |-> {}, selector |-> it.sel]

\* NativeFunctionExecutor.get_history up to the recorder read.
GetHistory(it) ==
  LET v == ValidateEntityIds(it.entity) IN
  IF v.exc # "ok"
    THEN [kind |-> "raise", exc |-> v.exc, names |-> v.names]
    ELSE [kind |-> "read", exc |-> "none", names |-> {}]

NativeTools == {"execute_service", "execute_service_single", "get_history"}

ItemLists == UNION {[1..n -> Items] : n \in 0..MaxItems}

NativeInit ==
  /\ TurnIdle([api |-> "chat", N |-> 1, K |-> 0])
  /\ bus = <<>>
  /\ reg = RegIdle
  /\ turns = TwoIdle
  /\ fn = FnIdle
  /\ \E tool \in NativeTools :
       \E its \in ItemLists :
         /\ tool = "execute_service_single" => Len(its) = 1
         /\ tool = "get_history" => Len(its) = 1 /\ its[1] \in HistoryItems
         /\ nat = [tool |-> tool, items |-> its, i |-> 0, status |-> "idle",
                   result |-> <<>>, error |-> "none", named |-> {}]

\* NativeFunctionExecutor.execute dispatches on function["name"].
NativeCall ==
  /\ nat.status = "idle"
  /\ nat' = [nat EXCEPT !.status = "running", !.i = 1]
  /\ UNCHANGED bus
  /\ UNCHANGED offNative

\* One service_argument of execute_service (lines 390-395), or the single one
\* of execute_service_single: validation, then the awaited service call, which
\* returns or raises HomeAssistantError (turned into an error payload).
NativeServiceItem ==
  /\ nat.status = "running"
  /\ nat.tool \in {"execute_service", "execute_service_single"}
  /\ nat.i <= Len(nat.items)
  /\ LET o == ExecuteServiceSingle(nat.items[nat.i]) IN
     CASE o.kind = "raise" ->
            /\ nat' = [nat EXCEPT !.status = "raised", !.error = o.exc,
                                  !.named = o.names]
            /\ UNCHANGED bus
       [] o.kind = "payload" ->
            /\ nat' = [nat EXCEPT !.i = @ + 1,
                                  !.result = Append(@, "error"),
                                  !.named = @ \cup o.names]
            /\ UNCHANGED bus
       [] OTHER ->
            /\ bus' = Append(bus, [target |-> o.target, selector |-> o.selector])
            /\ \E r \in {"success", "error"} :
                 nat' = [nat EXCEPT !.i = @ + 1, !.result = Append(@, r)]
  /\ UNCHANGED offNative

\* get_history: validation, then a read-only recorder query.
NativeHistory ==
  /\ nat.status = "running"
  /\ nat.tool = "get_history"
  /\ nat.i <= Len(nat.items)
  /\ LET o == GetHistory(nat.items[nat.i]) IN
     IF o.kind = "raise"
       THEN nat' = [nat EXCEPT !.status = "raised", !.error = o.exc,
                               !.named = o.names]
       ELSE nat' = [nat EXCEPT !.i = @ + 1, !.result = Append(@, "summary")]
  /\ UNCHANGED bus
  /\ UNCHANGED offNative

\* The executor returns its result.
NativeReturn ==
  /\ nat.status = "running"
  /\ nat.i > Len(nat.items)
  /\ nat' = [nat EXCEPT !.status = "returned"]
  /\ UNCHANGED bus
  /\ UNCHANGED offNative

NativeNext ==
  \/ NativeCall
  \/ NativeServiceItem
  \/ NativeHistory
  \/ NativeReturn

NativeSpec == NativeInit /\ [][NativeNext]_vars


\* ------------------------------------------------------- tool registry
\* config_flow._parse_functions_yaml on the parsed YAML list: vol.Invalid for
\* the whole list when one item is not a mapping, has no spec.name or has no
\* function.type; the list otherwise.
ParseFunctionsYaml(raw) ==
  IF \E i \in DOMAIN raw :
       \/ raw[i].shape # "dict"
       \/ raw[i].name = NoName
       \/ raw[i].type = NoType
    THEN [ok |-> FALSE, list |-> <<>>]
    ELSE [ok |-> TRUE, list |-> raw]

Put(map, key, value) ==
  [k \in (DOMAIN map) \cup {key} |-> IF k = key THEN value ELSE map[k]]

\* A loader that keeps the first declaration of a name.
LoadEntry_FirstWins(r, e) ==
  IF e.shape # "dict" \/ e.name = NoName \/ e.name \in DOMAIN r.runtime
    THEN r
    ELSE [specs |-> Append(r.specs, [name |-> e.name, tag |-> e.tag]),
          runtime |-> Put(r.runtime, e.name, [type |-> e.type, tag |-> e.tag])]

\* One iteration of the loop of _load_builtin_functions.
LoadEntry(r, e) ==
  IF e.shape # "dict" \/ e.name = NoName
    THEN r
    ELSE [specs |-> Append(SelectSeq(r.specs, LAMBDA s : s.name # e.name),
                           [name |-> e.name, tag |-> e.tag]),
          runtime |-> Put(r.runtime, e.name, [type |-> e.type, tag |-> e.tag])]

RECURSIVE LoadEntries(_, _, _)
LoadEntries(r, entries, i) ==
  IF i > Len(entries) THEN r
  ELSE LoadEntries(LoadEntry(r, entries[i]), entries, i + 1)

\* _load_builtin_functions(functions): built-ins first, then the options'
\* list when it is not empty.
LoadBuiltinFunctions(r, functions) ==
  LoadEntries(r, DefaultFunctions \o functions, 1)

\* _register_memory_tools and _register_mcp_tools: every named spec is
\* appended and its runtime entry written.
RECURSIVE RegisterBridgeTools(_, _, _, _)
RegisterBridgeTools(r, tools, kind, i) ==
  IF i > Len(tools) THEN r
  ELSE RegisterBridgeTools(
         IF tools[i].name = NoName THEN r
         ELSE [specs |-> Append(r.specs, tools[i]),
               runtime |-> Put(r.runtime, tools[i].name,
                               [type |-> kind, tag |-> tools[i].name])],
         tools, kind, i + 1)

\* options.get(CONF_FUNCTIONS, DEFAULT_FUNCTIONS), line 89.
FunctionsOption(functions) ==
  IF functions.set THEN functions.list ELSE DefaultFunctions

\* ToolsOrchestrator.__init__, lines 90-99: memory tools when memory is
\* enabled, then MCP tools when the bridge is available.
RegisterBridges(r, memory, mcp) ==
  LET withMemory == IF memory
                      THEN RegisterBridgeTools(r, MemoryToolSpecs, "memory", 1)
                      ELSE r
  IN IF mcp # <<>> THEN RegisterBridgeTools(withMemory, mcp, "mcp", 1)
     ELSE withMemory

\* conversation_tools_for_chat.
ToolsForChat(specs) ==
  [made |-> TRUE, raised |-> FALSE,
   tools |-> [i \in DOMAIN specs |-> [type |-> "function",
                                      function |-> specs[i]]]]

\* conversation_tools_for_responses: the same list, then the call of
\* build_responses_web_search_tool, whose TypeError leaves the method.
ToolsForResponses(specs) ==
  IF ToolsForResponsesRaises
    THEN [made |-> TRUE, raised |-> TRUE, tools |-> <<>>]
    ELSE [made |-> TRUE, raised |-> FALSE,
          tools |-> [i \in DOMAIN specs |-> [type |-> "function",
                                             function |-> specs[i]]]]

\* The options form is open with a declaration list typed in, or the entry's
\* options already hold a list (or none) and an orchestrator is about to be
\* constructed.  memory is the option memory_enabled, memory_url says whether
\* the option memory_base_url holds a URL.
RegistryInit ==
  /\ TurnIdle([api |-> "chat", N |-> 1, K |-> 0])
  /\ nat = NatIdle
  /\ bus = <<>>
  /\ turns = TwoIdle
  /\ fn = FnIdle
  /\ \E memory \in BOOLEAN, url \in BOOLEAN, mcp \in McpToolLists :
       \/ \E raw \in UserLists :
            reg = [RegIdle EXCEPT !.status = "form", !.raw = raw,
                                  !.memory = memory, !.memory_url = url,
                                  !.mcp = mcp]
       \/ \E fs \in {Unset} \cup {[set |-> TRUE, list |-> l] : l \in UserLists} :
            reg = [RegIdle EXCEPT !.status = "stored", !.functions = fs,
                                  !.memory = memory, !.memory_url = url,
                                  !.mcp = mcp]

\* OptionsFlow step (config_flow.py lines 171-178): the list is stored when it
\* parses; the form is shown again with an error and nothing is stored when it
\* does not.
SubmitOptions ==
  /\ reg.status = "form"
  /\ LET p == ParseFunctionsYaml(reg.raw) IN
       reg' = [reg EXCEPT !.status = "stored",
                          !.rejected = ~p.ok,
                          !.functions = IF p.ok
                                          THEN [set |-> TRUE, list |-> p.list]
                                          ELSE Unset]
  /\ UNCHANGED offRegistry

\* ToolsOrchestrator(...) for a turn, up to the return of
\* _load_builtin_functions (line 89).
ConstructRegistry ==
  /\ reg.status = "stored"
  /\ LET r == LoadBuiltinFunctions([specs |-> <<>>, runtime |-> <<>>],
                                   FunctionsOption(reg.functions)) IN
       reg' = [reg EXCEPT !.status = "loaded", !.specs = r.specs,
                          !.runtime = r.runtime]
  /\ UNCHANGED offRegistry

\* The rest of the constructor (lines 90-99).
FinishRegistry ==
  /\ reg.status = "loaded"
  /\ LET r == RegisterBridges([specs |-> reg.specs, runtime |-> reg.runtime],
                              reg.memory, reg.mcp) IN
       reg' = [reg EXCEPT !.status = "ready", !.specs = r.specs,
                          !.runtime = r.runtime]
  /\ UNCHANGED offRegistry

ProjectChat ==
  /\ reg.status = "ready"
  /\ ~reg.chat.made
  /\ reg' = [reg EXCEPT !.chat = ToolsForChat(reg.specs)]
  /\ UNCHANGED offRegistry

ProjectResponses ==
  /\ reg.status = "ready"
  /\ ~reg.resp.made
  /\ reg' = [reg EXCEPT !.resp = ToolsForResponses(reg.specs)]
  /\ UNCHANGED offRegistry

RegistryNext ==
  \/ SubmitOptions
  \/ ConstructRegistry
  \/ FinishRegistry
  \/ ProjectChat
  \/ ProjectResponses

RegistrySpec == RegistryInit /\ [][RegistryNext]_vars


\* ------------------------------------------------- two interleaved turns
\* The orchestrator an invocation works with.  A variant keeps one
\* orchestrator on the entity and hands it to every invocation.
NewOrchestrator_OnEntity(t) == 1

\* orchestrator = ToolsOrchestrator(...): a new object, referenced by a local
\* of the invocation alone.
NewOrchestrator(t) == t

TwoInit ==
  /\ TurnIdle([api |-> "chat", N |-> 1, K |-> 0])
  /\ nat = NatIdle
  /\ bus = <<>>
  /\ reg = RegIdle
  /\ fn = FnIdle
  /\ \E K \in 0..MaxToolCalls, N \in 1..MaxChain :
       turns = [TwoIdle EXCEPT !.K = K, !.N = N]

\* _async_handle_message up to the first request of _run_chat_flow: the
\* orchestrator is constructed and reset, messages holds the user message.
TwoStart(t) ==
  /\ turns.frame[t].pc \in {"idle", "done"}
  /\ LET o == NewOrchestrator(t) IN
       turns' = [turns EXCEPT
                   !.heap[o] = OrchFresh,
                   !.frame[t] = [pc |-> "await", o |-> o, depth |-> 0,
                                 left |-> 0, msgs |-> 1, ran |-> 0,
                                 starved |-> FALSE],
                   !.last = t]
  /\ UNCHANGED offTwo

\* The awaited completion returns with n tool calls.
TwoReply(t) ==
  /\ turns.frame[t].pc = "await"
  /\ \E n \in 0..MaxReplyCalls :
       LET f == turns.frame[t] IN
       turns' = [turns EXCEPT
                   !.frame[t] =
                      IF n = 0 \/ DepthLimitReached(f.depth, turns.N)
                        THEN [f EXCEPT !.pc = "done"]
                      ELSE [f EXCEPT !.pc = "tools", !.depth = f.depth + 1,
                                     !.msgs = f.msgs + 1, !.left = n],
                   !.last = t]
  /\ UNCHANGED offTwo

\* The next call of the round enters execute_tool_call.
TwoCall(t) ==
  /\ turns.frame[t].pc = "tools"
  /\ turns.frame[t].left > 0
  /\ LET f == turns.frame[t] IN
       IF CallBudgetExceeded(turns.heap[f.o].call_count, turns.K)
         THEN turns' = [turns EXCEPT
                          !.frame[t] = [f EXCEPT
                                          !.msgs = f.msgs + 1,
                                          !.left = f.left - 1,
                                          !.starved = f.starved
                                                        \/ f.ran < turns.K],
                          !.last = t]
       ELSE turns' = [turns EXCEPT
                        !.heap[f.o].call_count = @ + 1,
                        !.frame[t] = [f EXCEPT !.pc = "exec",
                                               !.ran = f.ran + 1],
                        !.last = t]
  /\ UNCHANGED offTwo

\* The awaited executor ends; its result is appended to messages.
TwoFinish(t) ==
  /\ turns.frame[t].pc = "exec"
  /\ LET f == turns.frame[t] IN
       turns' = [turns EXCEPT
                   !.frame[t] = [f EXCEPT !.pc = "tools",
                                          !.msgs = f.msgs + 1,
                                          !.left = f.left - 1],
                   !.last = t]
  /\ UNCHANGED offTwo

\* The round is over; the next completion is requested and awaited.
TwoRoundEnd(t) ==
  /\ turns.frame[t].pc = "tools"
  /\ turns.frame[t].left = 0
  /\ turns' = [turns EXCEPT !.frame[t].pc = "await", !.last = t]
  /\ UNCHANGED offTwo

TwoNext ==
  \/ \E t \in TurnSlots : TwoStart(t)
  \/ \E t \in TurnSlots : TwoReply(t)
  \/ \E t \in TurnSlots : TwoCall(t)
  \/ \E t \in TurnSlots : TwoFinish(t)
  \/ \E t \in TurnSlots : TwoRoundEnd(t)

TwoTurnSpec == TwoInit /\ [][TwoNext]_vars


\* ----------------------------------------------------- helper functions
\* A helper function is called once: fn holds its arguments, then its result.
FnInit(f) ==
  /\ TurnIdle([api |-> "chat", N |-> 1, K |-> 0])
  /\ nat = NatIdle
  /\ bus = <<>>
  /\ reg = RegIdle
  /\ turns = TwoIdle
  /\ fn = f

Min(a, b) == IF a <= b THEN a ELSE b

\* Python's seq[:k]: the first k items, or all but the last -k when k < 0.
SliceTo(seq, k) ==
  IF k >= 0 THEN SubSeq(seq, 1, Min(k, Len(seq)))
  ELSE SubSeq(seq, 1, Max(0, Len(seq) + k))

\* str.rstrip() and str.strip() for the whitespace character " ".
RStrip(t) ==
  IF \A i \in DOMAIN t : t[i] = " " THEN <<>>
  ELSE SubSeq(t, 1, CHOOSE i \in DOMAIN t :
                      t[i] # " " /\ \A j \in DOMAIN t : j > i => t[j] = " ")
Strip(t) ==
  LET r == RStrip(t) IN
  IF r = <<>> THEN <<>>
  ELSE SubSeq(r, CHOOSE i \in DOMAIN r :
                   r[i] # " " /\ \A j \in DOMAIN r : j < i => r[j] = " ",
              Len(r))

\* ---- ToolsOrchestrator._stringify_result
TruncationMarker == <<".", ".", ".", " ", "(", "t", "r", "u", "n", "c", "a", "t", "e", "d", ")">>
TruncationReserve == 16
MinResultCap == 256      \* config_flow: Range(min=256, max=16384)

\* _stringify_result for a str result.
StringifyResult(text, cap) ==
  LET t == Strip(text) IN
  IF cap # 0 /\ Len(t) > cap
    THEN RStrip(SliceTo(t, cap - TruncationReserve)) \o TruncationMarker
    ELSE t

\* What the tool loops feed back for a call whose executor raised
\* HomeAssistantError(message): execute_tool_call raises
\* ToolExecutionError(str(err)) and the loop formats it.
FailurePrefix == <<"T", "o", "o", "l", " ", "x", " ", "f", "a", "i", "l", "e", "d", ":", " ">>
FailureOutput(message) == FailurePrefix \o message

\* Result texts: length n, lead leading and trail trailing blanks, a blank at
\* position gap (0: none), the letter a elsewhere.
TextOf(n, lead, trail, gap) ==
  [i \in 1..n |-> IF i <= lead \/ i > n - trail \/ i = gap THEN " " ELSE "a"]
ResultCaps == {MinResultCap, MinResultCap + CapSpread}
TextLens == (MinResultCap - LenSpread)..(MinResultCap + CapSpread + LenSpread)
Blanks == 0..1
Gaps == {0, MinResultCap - TruncationReserve}

StringifyInit ==
  \E cap \in ResultCaps, n \in TextLens, lead \in Blanks, trail \in Blanks,
     gap \in Gaps, how \in {"returned", "raised"} :
    FnInit([op |-> "stringify", cap |-> cap, how |-> how,
            text |-> TextOf(n, lead, trail, gap), done |-> FALSE,
            out |-> <<>>])

\* execute_tool_call, lines 318-326: the executor returned.
ToolReturned ==
  /\ fn.op = "stringify" /\ ~fn.done /\ fn.how = "returned"
  /\ fn' = [fn EXCEPT !.done = TRUE, !.out = StringifyResult(fn.text, fn.cap)]
  /\ UNCHANGED offFn

\* execute_tool_call, lines 297-306, and the except clause of the loop.
ToolRaised ==
  /\ fn.op = "stringify" /\ ~fn.done /\ fn.how = "raised"
  /\ fn' = [fn EXCEPT !.done = TRUE, !.out = FailureOutput(fn.text)]
  /\ UNCHANGED offFn

StringifyNext ==
  \/ ToolReturned
  \/ ToolRaised

StringifySpec == StringifyInit /\ [][StringifyNext]_vars


\* ---- model_capabilities.detect_model_capabilities and the request payloads
ReasoningPrefixes == {<<"g", "p", "t", "-", "5">>, <<"o", "1">>, <<"o", "3">>, <<"o", "4">>}
ReasoningModelsExplicit == {<<"g", "p", "t", "-", "4", ".", "1", "-", "r", "e", "a", "s", "o", "n", "i", "n", "g">>}

\* str.lower() on the letters that occur in the model names below.
LowerChar(c) ==
  CASE c = "G" -> "g" [] c = "P" -> "p" [] c = "T" -> "t" [] c = "O" -> "o"
    [] c = "R" -> "r" [] OTHER -> c
Lower(t) == [i \in DOMAIN t |-> LowerChar(t[i])]
StartsWith(t, prefix) ==
  Len(t) >= Len(prefix) /\ SubSeq(t, 1, Len(prefix)) = prefix

\* The name is compared as it is written.
NormalName_CaseSensitive(model) == IF model.given THEN model.name ELSE <<>>

\* name = (model or "").lower()
NormalName(model) == IF model.given THEN Lower(model.name) ELSE <<>>

DetectModelCapabilities(model) ==
  LET name == NormalName(model)
      is_reasoning == \/ \E p \in ReasoningPrefixes : StartsWith(name, p)
                      \/ name \in ReasoningModelsExplicit
  IN [is_reasoning |-> is_reasoning,
      accepts_temperature |-> ~is_reasoning,
      chat_max_tokens_param |-> IF is_reasoning THEN "max_completion_tokens"
                                ELSE "max_tokens",
      responses_max_tokens_param |-> "max_output_tokens"]

\* Model names: a head followed by a tail, or None.
NameHeads ==
  {<<>>,
   <<"g", "p", "t", "-", "5">>,
   <<"G", "P", "T", "-", "5">>,
   <<"o", "1">>,
   <<"O", "1">>,
   <<"o", "3">>,
   <<"o", "4">>,
   <<"g", "p", "t", "-", "4">>,
   <<"g", "p", "t", "-", "4", ".", "1", "-", "r", "e", "a", "s", "o", "n", "i", "n", "g">>,
   <<"o">>,
   <<"x", "-", "g", "p", "t", "-", "5">>}
NameTails ==
  {<<>>,
   <<"-", "m", "i", "n", "i">>,
   <<"o", "-", "m", "i", "n", "i">>,
   <<".", "1", "-", "r", "e", "a", "s", "o", "n", "i", "n", "g">>,
   <<"-", "R", "e", "a", "s", "o", "n", "i", "n", "g">>}
ModelNames == {[given |-> FALSE, name |-> <<>>]}
                \cup {[given |-> TRUE, name |-> h \o t] :
                        h \in NameHeads, t \in NameTails}

NoCaps == [is_reasoning |-> FALSE, accepts_temperature |-> FALSE,
           chat_max_tokens_param |-> "none",
           responses_max_tokens_param |-> "none"]

CapsInit ==
  \E m \in ModelNames :
    FnInit([op |-> "caps", model |-> m, detected |-> 0, caps |-> NoCaps,
            again |-> NoCaps])

\* caps = detect_model_capabilities(model), conversation.py line 120; the
\* function is called again for the same model by tools_web_search line 79.
DetectCapabilities ==
  /\ fn.op = "caps" /\ fn.detected = 0
  /\ fn' = [fn EXCEPT !.detected = 1, !.caps = DetectModelCapabilities(fn.model)]
  /\ UNCHANGED offFn

DetectAgain ==
  /\ fn.op = "caps" /\ fn.detected = 1
  /\ fn' = [fn EXCEPT !.detected = 2, !.again = DetectModelCapabilities(fn.model)]
  /\ UNCHANGED offFn

CapsNext ==
  \/ DetectCapabilities
  \/ DetectAgain

CapsSpec == CapsInit /\ [][CapsNext]_vars

\* ---- the request payloads of _run_chat_flow and _run_responses_flow
DefaultMaxTokens == 300
\* The options form coerces max_tokens to an integer without a range.
MaxTokensOptions == {-1, 0, DefaultMaxTokens}
RequestModels ==
  {<<"g", "p", "t", "-", "5">>,
   <<"g", "p", "t", "-", "4", "o", "-", "m", "i", "n", "i">>,
   <<"g", "p", "t", "-", "4", ".", "1", "-", "r", "e", "a", "s", "o", "n", "i", "n", "g">>,
   <<"o", "3", "-", "m", "i", "n", "i">>,
   <<"G", "P", "T", "-", "5", "-", "m", "i", "n", "i">>}

\* max_tokens = int(options.get(CONF_MAX_TOKENS) or DEFAULT_MAX_TOKENS)
EffectiveMaxTokens(option) == IF option = 0 THEN DefaultMaxTokens ELSE option

\* The keyword names of the chat request built before the loop.  temperature
\* and top_p are never None: _default_options supplies them.
ChatKwargs(caps, option) ==
  {"model", "messages"}
    \cup (IF EffectiveMaxTokens(option) > 0
            THEN {IF caps.is_reasoning THEN "max_completion_tokens"
                  ELSE "max_tokens"}
          ELSE {})
    \cup (IF caps.accepts_temperature THEN {"temperature", "top_p"} ELSE {})

\* The keys of the Responses payload up to the tool projection.
ResponsesPayload(caps, option) ==
  {"model", "input"}
    \cup (IF EffectiveMaxTokens(option) > 0 THEN {"max_output_tokens"} ELSE {})
    \cup (IF caps.is_reasoning THEN {"reasoning"} ELSE {})

RequestInit ==
  \E api \in {"chat", "responses"}, m \in RequestModels,
     o \in MaxTokensOptions :
    FnInit([op |-> "request", api |-> api,
            model |-> [given |-> TRUE, name |-> m],
            caps |-> NoCaps, max_tokens |-> o, stage |-> "detect",
            payload |-> {}, sent |-> <<>>, depth |-> 0])

\* conversation.py line 120
RequestDetect ==
  /\ fn.op = "request" /\ fn.stage = "detect"
  /\ fn' = [fn EXCEPT !.caps = DetectModelCapabilities(fn.model),
                      !.stage = "build"]
  /\ UNCHANGED offFn

\* _run_chat_flow up to the loop
BuildChatKwargs ==
  /\ fn.op = "request" /\ fn.stage = "build" /\ fn.api = "chat"
  /\ fn' = [fn EXCEPT !.payload = ChatKwargs(fn.caps, fn.max_tokens),
                      !.stage = "ready"]
  /\ UNCHANGED offFn

\* _run_responses_flow up to the tool projection, which raises before the
\* request of line 292.
BuildResponsesPayload ==
  /\ fn.op = "request" /\ fn.stage = "build" /\ fn.api = "responses"
  /\ fn' = [fn EXCEPT !.payload = ResponsesPayload(fn.caps, fn.max_tokens),
                      !.stage = IF ToolsForResponsesRaises THEN "failed"
                                ELSE "ready"]
  /\ UNCHANGED offFn

\* client.chat.completions.create(**kwargs); the reply either has no tool
\* calls (the turn ends) or has some.
ChatCreate ==
  /\ fn.op = "request" /\ fn.stage = "ready" /\ fn.api = "chat"
  /\ \E calls \in BOOLEAN :
       fn' = [fn EXCEPT !.sent = Append(fn.sent, fn.payload),
                        !.stage = IF calls /\ fn.depth < MaxChain
                                    THEN "tools" ELSE "done"]
  /\ UNCHANGED offFn

\* After the tool round: kwargs["messages"] = messages; depth += 1
ChatFollowUp ==
  /\ fn.op = "request" /\ fn.stage = "tools"
  /\ fn' = [fn EXCEPT !.payload = fn.payload \cup {"messages"},
                      !.depth = fn.depth + 1,
                      !.stage = "ready"]
  /\ UNCHANGED offFn

RequestNext ==
  \/ RequestDetect
  \/ BuildChatKwargs
  \/ BuildResponsesPayload
  \/ ChatCreate
  \/ ChatFollowUp

RequestSpec == RequestInit /\ [][RequestNext]_vars

\* ---- responses_adapter.responses_to_chat_like
MaxOutputItems == 2

\* A value that is a str, or is absent / None.
NoText == [is |-> FALSE, v |-> <<>>]
Text(v) == [is |-> TRUE, v |-> v]

\* A tool_call value: a dict with an optional id, the name and arguments
\* either under "function" or beside it, and arguments that are a dict, a
\* JSON str or absent; or a value that is not a dict.
NoCall == [dict |-> FALSE, id |-> "", nested |-> FALSE, name |-> "",
           args |-> "none", keys |-> {}]
ToolCallValues ==
  {[dict |-> TRUE, id |-> "call_1", nested |-> TRUE, name |-> "execute_service",
    args |-> "dict", keys |-> {"domain", "service", "service_data"}],
   [dict |-> TRUE, id |-> "", nested |-> FALSE, name |-> "get_history",
    args |-> "str", keys |-> {"entity_ids"}],
   [dict |-> TRUE, id |-> "", nested |-> TRUE, name |-> "list_areas",
    args |-> "none", keys |-> {}]}

\* Content parts of a message item.
TextPart(v) == [type |-> "output_text", text |-> Text(v), call |-> NoCall]
CallPart(c) == [type |-> "tool_call", text |-> NoText, call |-> c]
ContentLists ==
  {<<>>,
   <<TextPart(<<"H", "i">>)>>,
   <<TextPart(<<"H", "i">>), TextPart(<<"!">>)>>,
   <<TextPart(<<>>)>>}
  \cup {<<CallPart(c)>> : c \in ToolCallValues}
  \cup {<<TextPart(<<"o", "k">>), CallPart(c)>> : c \in ToolCallValues}

\* Output items: a message with content parts and an optional status, a bare
\* text item, a tool_call item with an optional id of its own.
OutputItems ==
  {[type |-> "message", id |-> "", status |-> st, text |-> NoText,
    content |-> cl, call |-> NoCall] :
     st \in {"", "completed"}, cl \in ContentLists}
  \cup {[type |-> "output_text", id |-> "", status |-> "",
          text |-> Text(<<"H", "i">>), content |-> <<>>, call |-> NoCall]}
  \cup {[type |-> "tool_call", id |-> i, status |-> "", text |-> NoText,
          content |-> <<>>, call |-> c] :
           i \in {"", "item_1"}, c \in ToolCallValues}

OutputLists ==
  UNION {[1..n -> OutputItems] : n \in 0..MaxOutputItems}

\* usage: absent, or a dict with some of the five counters (-1: key absent).
NoUsage == [dict |-> FALSE, prompt_tokens |-> -1, input_tokens |-> -1,
            completion_tokens |-> -1, output_tokens |-> -1,
            total_tokens |-> -1]
UsageValues ==
  {NoUsage,
   [NoUsage EXCEPT !.dict = TRUE, !.input_tokens = 10, !.output_tokens = 5],
   [NoUsage EXCEPT !.dict = TRUE, !.input_tokens = 12, !.output_tokens = 0],
   [NoUsage EXCEPT !.dict = TRUE, !.prompt_tokens = 4,
                   !.completion_tokens = 2],
   [NoUsage EXCEPT !.dict = TRUE, !.input_tokens = 10, !.output_tokens = 5,
                   !.total_tokens = 15]}

\* The body of a Responses payload.
Bodies ==
  [stop_reason : {""}, output : OutputLists, tool_calls : {<<>>},
   output_text : {NoText}, usage : UsageValues]
  \cup [stop_reason : {"", "stop", "max_tokens"},
         output : {<<>>},
         tool_calls : {<<>>} \cup {<<c>> : c \in ToolCallValues},
         output_text : {NoText, Text(<<"H", "i">>)},
         usage : {NoUsage}]

NoBody == [stop_reason |-> "", output |-> <<>>, tool_calls |-> <<>>,
           output_text |-> NoText, usage |-> NoUsage]

\* The dict that _to_dict returns: the body itself, or a dict that holds the
\* body under the key "response" and has none of the body's keys.
Payloads == [wrapped : BOOLEAN, body : Bodies]
ResponseDict(payload) == IF payload.wrapped THEN NoBody ELSE payload.body

ExtractFinishReason(item, default) ==
  IF item.status # "" THEN item.status ELSE default

\* json.dumps of a dict, a str kept as it is, "{}" for None: in each case
\* a JSON text with the keys of the source.
FormatArguments(call) ==
  IF call.args = "none" THEN [json |-> TRUE, keys |-> {}]
  ELSE [json |-> TRUE, keys |-> call.keys]

\* _format_tool_call: no call for a value that is not a dict; the id is the
\* call's, else the enclosing item's, else a fresh uuid.
FormatToolCall(call, itemId) ==
  IF ~call.dict THEN <<>>
  ELSE <<[id |-> IF call.id # "" THEN call.id
                 ELSE IF itemId # "" THEN itemId
                 ELSE "call_<uuid4>",
          type |-> "function",
          name |-> call.name,
          arguments |-> FormatArguments(call)]>>

RECURSIVE Flatten(_)
Flatten(ss) == IF ss = <<>> THEN <<>> ELSE Head(ss) \o Flatten(Tail(ss))

PartSegments(part) ==
  IF part.type \in {"output_text", "text"} /\ part.text.is
    THEN <<part.text.v>> ELSE <<>>
PartCalls(part, item) ==
  IF part.type = "tool_call" THEN FormatToolCall(part.call, item.id) ELSE <<>>

\* One pass of the loop over output_items.
ItemSegments(item) ==
  IF item.type \in {"output_text", "text"}
    THEN (IF item.text.is THEN <<item.text.v>> ELSE <<>>)
    ELSE Flatten([i \in DOMAIN item.content |->
                    PartSegments(item.content[i])])
ItemCalls(item) ==
  IF item.type \in {"output_text", "text"} THEN <<>>
  ELSE Flatten([i \in DOMAIN item.content |->
                  PartCalls(item.content[i], item)])
       \o (IF item.type = "tool_call"
             THEN FormatToolCall(item.call, item.id) ELSE <<>>)

RECURSIVE LoopFinishReason(_, _)
LoopFinishReason(items, reason) ==
  IF items = <<>> THEN reason
  ELSE LoopFinishReason(Tail(items), ExtractFinishReason(Head(items), reason))

\* Only the mapped counters that are present are kept.
NormaliseUsage(usage) ==
  IF ~usage.dict THEN NoUsage
  ELSE [NoUsage EXCEPT
          !.dict = TRUE,
          !.prompt_tokens = IF usage.prompt_tokens # -1
                              THEN usage.prompt_tokens
                              ELSE usage.input_tokens,
          !.completion_tokens = IF usage.completion_tokens # -1
                                  THEN usage.completion_tokens
                                  ELSE usage.output_tokens,
          !.total_tokens = usage.total_tokens]

ResponsesToChatLike(payload) ==
  LET d == ResponseDict(payload)
      segs == Flatten([i \in DOMAIN d.output |-> ItemSegments(d.output[i])])
      found == Flatten([i \in DOMAIN d.output |-> ItemCalls(d.output[i])])
                 \o Flatten([i \in DOMAIN d.tool_calls |->
                               FormatToolCall(d.tool_calls[i], "")])
      segments == IF segs = <<>> /\ d.output_text.is
                    THEN <<d.output_text.v>> ELSE segs
      assistant_text == Flatten(segments)
      looped == LoopFinishReason(d.output,
                                 IF d.stop_reason # "" THEN d.stop_reason
                                 ELSE "stop")
      finish_reason == IF found # <<>> /\ looped = "stop" THEN "tool_calls"
                       ELSE looped
  IN [choices |-> 1,
      content |-> IF assistant_text = <<>> THEN NoText
                  ELSE Text(assistant_text),
      tool_calls |-> found,
      finish_reason |-> finish_reason,
      usage |-> NormaliseUsage(d.usage)]

NoResult == [choices |-> 0, content |-> NoText, tool_calls |-> <<>>,
             finish_reason |-> "", usage |-> NoUsage]

AdapterInit ==
  \E p \in Payloads :
    FnInit([op |-> "adapt", payload |-> p, done |-> FALSE,
            result |-> NoResult])

Normalise ==
  /\ fn.op = "adapt" /\ ~fn.done
  /\ fn' = [fn EXCEPT !.done = TRUE,
                      !.result = ResponsesToChatLike(fn.payload)]
  /\ UNCHANGED offFn

AdapterNext ==
  \/ Normalise

AdapterSpec == AdapterInit /\ [][AdapterNext]_vars

\* ---- tools_builtin.ScriptFunctionExecutor, called by execute_tool_call
\* A 'sequence' value: the key is absent, or holds an empty list, or steps.
SequenceValues == {"absent", "empty", "steps"}
\* An 'entity_id' value: absent, a script entity, another entity.
EntityIdValues == {"absent", "script.morning", "light.kitchen"}
IsScriptEntity(e) == e = "script.morning"

\* The declared function (the runtime dict) and the arguments of the call.
ScriptDeclarations == [sequence : SequenceValues]
ScriptArguments ==
  [sequence : SequenceValues, entity_id : EntityIdValues, other : BOOLEAN]

\* FunctionExecutor.to_arguments with SCRIPT_ENTITY_SCHEMA: a key the schema
\* does not declare (entity_id, any other argument) is a voluptuous error.
ScriptSchemaAccepts(args) ==
  args.sequence # "absent" /\ args.entity_id = "absent" /\ ~args.other

\* ScriptFunctionExecutor.to_arguments: the validated arguments, or
\* InvalidFunction.
ScriptToArguments(args) ==
  IF args.sequence # "absent"
    THEN (IF ScriptSchemaAccepts(args)
            THEN [ok |-> TRUE, sequence |-> args.sequence,
                  entity_id |-> "absent"]
          ELSE [ok |-> FALSE, sequence |-> "absent", entity_id |-> "absent"])
  ELSE IF IsScriptEntity(args.entity_id)
    THEN [ok |-> TRUE, sequence |-> "absent", entity_id |-> args.entity_id]
  ELSE [ok |-> FALSE, sequence |-> "absent", entity_id |-> "absent"]

\* ScriptFunctionExecutor.execute: what is run, or the error raised.
ScriptExecute(function, arguments) ==
  LET sequence == IF function.sequence = "steps" THEN "steps"
                  ELSE arguments.sequence
  IN IF sequence = "steps" THEN "ran_sequence"
     ELSE IF IsScriptEntity(arguments.entity_id) THEN "called_script"
     ELSE "HomeAssistantError"

NoValidated == [ok |-> FALSE, sequence |-> "absent", entity_id |-> "absent"]

ScriptInit ==
  \E d \in ScriptDeclarations, a \in ScriptArguments :
    FnInit([op |-> "script", function |-> d, arguments |-> a,
            stage |-> "prepare", validated |-> NoValidated,
            outcome |-> "pending"])

\* execute_tool_call: payload = self._prepare_arguments(runtime, arguments)
ScriptPrepare ==
  /\ fn.op = "script" /\ fn.stage = "prepare"
  /\ LET v == ScriptToArguments(fn.arguments)
     IN fn' = [fn EXCEPT !.validated = v,
                         !.stage = IF v.ok THEN "invoke" ELSE "done",
                         !.outcome = IF v.ok THEN "pending"
                                     ELSE "InvalidFunction"]
  /\ UNCHANGED offFn

\* execute_tool_call: self._invoke(runtime, payload, user_input)
ScriptInvoke ==
  /\ fn.op = "script" /\ fn.stage = "invoke"
  /\ fn' = [fn EXCEPT !.stage = "done",
                      !.outcome = ScriptExecute(fn.function, fn.validated)]
  /\ UNCHANGED offFn

ScriptNext ==
  \/ ScriptPrepare
  \/ ScriptInvoke

ScriptSpec == ScriptInit /\ [][ScriptNext]_vars

\* ---- tools_builtin.RestFunctionExecutor, called by execute_tool_call
RestBodyMaxChars == 8192
BodySpread == 1
RestAllowedMethods == {"GET", "POST", "PUT", "PATCH", "DELETE"}
\* The methods that to_arguments lets through.
RestSchemaMethods == {"GET", "POST"}
HttpSchemes == {<<"h", "t", "t", "p", ":", "/", "/">>, <<"h", "t", "t", "p", "s", ":", "/", "/">>}

\* The 'url' argument: absent, or a str.
RestUrls ==
  {[given |-> FALSE, name |-> <<>>]}
    \cup {[given |-> TRUE, name |-> u] : u \in
  {<<"h", "t", "t", "p", ":", "/", "/", "h", "/", "a">>,
   <<"h", "t", "t", "p", "s", ":", "/", "/", "h", "/", "a">>,
   <<"H", "T", "T", "P", "S", ":", "/", "/", "h", "/", "a">>,
   <<"f", "t", "p", ":", "/", "/", "h", "/", "a">>,
   <<"f", "i", "l", "e", ":", "/", "/", "/", "a">>,
   <<"h", "/", "a">>}}
\* The 'method' argument ("absent": the key is missing).
RestMethods == {"absent", "GET", "get", "POST", "PUT", "DELETE", "TRACE"}
Upper(m) == IF m = "get" THEN "GET" ELSE m
\* Body lengths: a short one and those around the limit.
BodyLens ==
  {5} \cup ((RestBodyMaxChars - BodySpread)..(RestBodyMaxChars + BodySpread))
\* The body of the call: under 'body', under 'payload', under both, or none
\* (len -1).
RestBodies ==
  {[key |-> "none", len |-> -1]}
    \cup [key : {"body", "payload", "both"}, len : BodyLens]
\* The 'payload' of the declaration: absent, or a str of that length; it is
\* sent as declared when the call has no body.
DeclaredPayloads == {-1, 5, RestBodyMaxChars + BodySpread}

RestArguments ==
  [url : RestUrls, method : RestMethods, body : RestBodies,
   headers : {"absent", "dict", "list"}]

UrlIsHttp(url) ==
  url.given /\ \E p \in HttpSchemes : StartsWith(Lower(url.name), p)

\* RestFunctionExecutor.to_arguments: the normalised arguments, or
\* vol.Invalid.  A 'body' left beside 'payload' is a key the schema does not
\* declare.
RestToArguments(args) ==
  LET method == Upper(IF args.method = "absent" THEN "GET" ELSE args.method)
  IN IF ~UrlIsHttp(args.url) THEN [ok |-> FALSE, method |-> "", payload |-> -1]
     ELSE IF method \notin RestSchemaMethods
       THEN [ok |-> FALSE, method |-> "", payload |-> -1]
     ELSE IF args.headers = "list"
       THEN [ok |-> FALSE, method |-> "", payload |-> -1]
     ELSE IF args.body.key = "both"
       THEN [ok |-> FALSE, method |-> "", payload |-> -1]
     ELSE [ok |-> TRUE, method |-> method, payload |-> args.body.len]

\* RestFunctionExecutor.execute up to the request: the error raised, or the
\* length of the body that rest_data.async_update() sends (-1: no body).
\* The URL and the headers were checked by to_arguments and pass again.
RestExecute_Truncates(function, arguments) ==
  IF arguments.method \notin RestAllowedMethods
    THEN [error |-> "HomeAssistantError", body |-> -1]
  ELSE [error |-> "",
        body |-> IF arguments.payload # -1
                   THEN Min(arguments.payload, RestBodyMaxChars)
                 ELSE function.payload]

RestExecute(function, arguments) ==
  IF arguments.method \notin RestAllowedMethods
    THEN [error |-> "HomeAssistantError", body |-> -1]
  ELSE IF arguments.payload # -1 /\ arguments.payload > RestBodyMaxChars
    THEN [error |-> "HomeAssistantError", body |-> -1]
  ELSE [error |-> "",
        body |-> IF arguments.payload # -1 THEN arguments.payload
                 ELSE function.payload]

RestInit ==
  \E a \in RestArguments, d \in DeclaredPayloads :
    FnInit([op |-> "rest", function |-> [payload |-> d], arguments |-> a,
            stage |-> "prepare",
            validated |-> [ok |-> FALSE, method |-> "", payload |-> -1],
            error |-> "", network |-> 0, sent |-> -1])

\* execute_tool_call: payload = self._prepare_arguments(runtime, arguments)
RestPrepare ==
  /\ fn.op = "rest" /\ fn.stage = "prepare"
  /\ LET v == RestToArguments(fn.arguments)
     IN fn' = [fn EXCEPT !.validated = v,
                         !.stage = IF v.ok THEN "invoke" ELSE "done",
                         !.error = IF v.ok THEN "" ELSE "vol.Invalid"]
  /\ UNCHANGED offFn

\* execute_tool_call: self._invoke(runtime, payload, user_input)
RestInvoke ==
  /\ fn.op = "rest" /\ fn.stage = "invoke"
  /\ LET r == RestExecute(fn.function, fn.validated)
     IN fn' = [fn EXCEPT !.stage = "done",
                         !.error = r.error,
                         !.network = IF r.error = "" THEN 1 ELSE 0,
                         !.sent = r.body]
  /\ UNCHANGED offFn

RestNext ==
  \/ RestPrepare
  \/ RestInvoke

RestSpec == RestInit /\ [][RestNext]_vars

\* ---- tools_builtin.CompositeFunctionExecutor, called by execute_tool_call
MaxSteps == 3
\* Names a step may give as its response_variable ("": none declared).
BagNames == {"x", "y"}
\* A step: the variable it declares and whether its executor raises.
CompositeSteps == [response_variable : BagNames \cup {""}, raises : BOOLEAN]
StepLists == UNION {[1..n -> CompositeSteps] : n \in 0..MaxSteps}
\* The 'sequence' argument of the call: absent, or a list.
ArgumentSequences ==
  {[given |-> FALSE, steps |-> <<>>], [given |-> TRUE, steps |-> <<>>],
   [given |-> TRUE,
    steps |-> <<[response_variable |-> "", raises |-> FALSE]>>]}

\* What step i returns; 0 is the value of a name not in the bag.
ResultOf(i) == i
EmptyBag == [v \in BagNames |-> 0]

\* sequence = config.get("sequence") or arguments.get("sequence")
CompositeSequence(function, arguments) ==
  IF function # <<>> THEN function ELSE arguments.steps

CompositeInit ==
  \E d \in StepLists, a \in ArgumentSequences :
    FnInit([op |-> "composite", function |-> d, arguments |-> a,
            stage |-> "prepare", sequence |-> <<>>, i |-> 0,
            bag |-> EmptyBag, started |-> <<>>, finished |-> <<>>,
            seen |-> <<>>, result |-> 0, error |-> ""])

\* execute_tool_call: _prepare_arguments; the composite schema requires a
\* 'sequence' in the arguments of the call.
CompositePrepare ==
  /\ fn.op = "composite" /\ fn.stage = "prepare"
  /\ fn' = [fn EXCEPT !.stage = IF fn.arguments.given THEN "enter"
                                ELSE "done",
                      !.error = IF fn.arguments.given THEN ""
                                ELSE "InvalidFunction"]
  /\ UNCHANGED offFn

\* execute: the sequence is chosen and must be a non-empty list.
CompositeEnter ==
  /\ fn.op = "composite" /\ fn.stage = "enter"
  /\ LET sequence == CompositeSequence(fn.function, fn.arguments)
     IN fn' = IF sequence = <<>>
                THEN [fn EXCEPT !.stage = "done",
                                !.error = "HomeAssistantError"]
              ELSE [fn EXCEPT !.stage = "loop", !.sequence = sequence,
                              !.i = 1]
  /\ UNCHANGED offFn

\* function_executor.execute(hass, executor_config, arguments, ...) is
\* called with the bag as it is now.
StepStart ==
  /\ fn.op = "composite" /\ fn.stage = "loop"
  /\ fn' = [fn EXCEPT !.stage = "await",
                      !.started = Append(fn.started, fn.i),
                      !.seen = Append(fn.seen, fn.bag)]
  /\ UNCHANGED offFn

\* The step raised: the exception leaves execute; or it returned and the
\* result is kept only as the loop's result.
StepFinish_Unstored ==
  /\ fn.op = "composite" /\ fn.stage = "await"
  /\ LET step == fn.sequence[fn.i]
     IN fn' = IF step.raises
                THEN [fn EXCEPT !.stage = "done",
                                !.error = "HomeAssistantError"]
              ELSE [fn EXCEPT !.finished = Append(fn.finished, fn.i),
                              !.result = ResultOf(fn.i),
                              !.i = fn.i + 1,
                              !.stage = IF fn.i = Len(fn.sequence)
                                          THEN "return" ELSE "loop"]
  /\ UNCHANGED offFn

\* The step raised: the exception leaves execute; or it returned: its result
\* is stored under its response_variable and the loop goes on.
StepFinish ==
  /\ fn.op = "composite" /\ fn.stage = "await"
  /\ LET step == fn.sequence[fn.i]
         v == step.response_variable
     IN fn' = IF step.raises
                THEN [fn EXCEPT !.stage = "done",
                                !.error = "HomeAssistantError"]
              ELSE [fn EXCEPT !.finished = Append(fn.finished, fn.i),
                              !.result = ResultOf(fn.i),
                              !.bag = IF v # ""
                                        THEN [fn.bag EXCEPT ![v] = ResultOf(fn.i)]
                                      ELSE fn.bag,
                              !.i = fn.i + 1,
                              !.stage = IF fn.i = Len(fn.sequence)
                                          THEN "return" ELSE "loop"]
  /\ UNCHANGED offFn

\* return result
CompositeReturn ==
  /\ fn.op = "composite" /\ fn.stage = "return"
  /\ fn' = [fn EXCEPT !.stage = "done"]
  /\ UNCHANGED offFn

CompositeNext ==
  \/ CompositePrepare
  \/ CompositeEnter
  \/ StepStart
  \/ StepFinish
  \/ CompositeReturn

CompositeSpec == CompositeInit /\ [][CompositeNext]_vars

\* ---- the result of _async_handle_message: _ok, _err, _should_continue
\* The text a flow returns (None: not given) or the message of the
\* exception it raises.
FlowTexts ==
  {[given |-> FALSE, name |-> <<>>]}
    \cup {[given |-> TRUE, name |-> t] : t \in
  {<<>>,
   <<"o", "k">>,
   <<"o", "k", "?">>,
   <<"?">>,
   <<"a", "?", "b">>,
   <<"?", "a">>,
   <<"n", "o", ".", " ">>,
   <<"W", "h", "i", "c", "h", " ", "o", "n", "e", "?", " ", "T", "h", "e", " ", "l", "a", "m", "p", ".">>}}
\* user_input.conversation_id ("": None)
ConversationIds == {"", "conv-1", "conv-2"}
FlowEnds == {"returned", "ToolExecutionError", "Exception"}

\* Only a text that ends with a question mark asks for a follow-up.
ShouldContinue_LastChar(text) ==
  text.given /\ text.name # <<>> /\ text.name[Len(text.name)] = "?"

\* _should_continue: "?" in (text or "")
ShouldContinue(text) ==
  text.given /\ \E i \in DOMAIN text.name : text.name[i] = "?"

ErrPrefix ==
  <<"S", "o", "r", "r", "y", ",", " ", "I", " ", "h", "a", "d", " ", "a", " ", "p", "r", "o", "b", "l", "e", "m", ":", " ">>

\* _ok: the speech is text or "", the request's conversation_id is kept.
Ok(text, conversation_id, cont) ==
  [kind |-> "ok", speech |-> IF text.given THEN text.name ELSE <<>>,
   conversation_id |-> conversation_id, continue_conversation |-> cont]

\* _err: no conversation_id, never a follow-up.
Err(msg) ==
  [kind |-> "error", speech |-> ErrPrefix \o msg, conversation_id |-> "",
   continue_conversation |-> FALSE]

ResultInit ==
  \E t \in FlowTexts, c \in ConversationIds, e \in FlowEnds :
    /\ (e # "returned" => t.given)
    /\ FnInit([op |-> "result", text |-> t, conversation_id |-> c,
               flow |-> e, done |-> FALSE,
               result |-> [kind |-> "none", speech |-> <<>>,
                           conversation_id |-> "",
                           continue_conversation |-> FALSE]])

\* The flow returned its text: cont = _should_continue(text); return _ok(...)
FlowReturned ==
  /\ fn.op = "result" /\ ~fn.done /\ fn.flow = "returned"
  /\ fn' = [fn EXCEPT !.done = TRUE,
                      !.result = Ok(fn.text, fn.conversation_id,
                                    ShouldContinue(fn.text))]
  /\ UNCHANGED offFn

\* The flow raised: return _err(str(err), user_input.language)
FlowRaised ==
  /\ fn.op = "result" /\ ~fn.done /\ fn.flow # "returned"
  /\ fn' = [fn EXCEPT !.done = TRUE, !.result = Err(fn.text.name)]
  /\ UNCHANGED offFn

ResultNext ==
  \/ FlowReturned
  \/ FlowRaised

ResultSpec == ResultInit /\ [][ResultNext]_vars

\* ---- the tool rounds of both flows: call ids, result items, chat log
\* The id the API gives the k-th call of a reply, and the position str(idx)
\* the halted Responses round falls back to.
IdNames == <<"call_1", "call_2", "call_3", "call_4">>
IdxNames == <<"0", "1", "2", "3">>
\* A call of a reply: its id and its name, either of which may be missing.
RoundCalls == [id : {""} \cup {IdNames[k] : k \in DOMAIN IdNames},
               name : {"", "light_on"}]
RoundReplies ==
  UNION {{r \in [1..n -> RoundCalls] :
            \A k \in 1..n : r[k].id \in {"", IdNames[k]}} :
         n \in 0..MaxReplyCalls}

\* How execute_tool_call ends: refused before the executor starts, or one of
\* the ends of the executor run.
RefusedEnds == {"max_calls", "time_budget", "unknown", "invalid"}
RefusedMessage(how) ==
  CASE how = "max_calls" -> MsgMaxCalls
    [] how = "time_budget" -> MsgTimeBudget
    [] how = "unknown" -> MsgUnknown
    [] OTHER -> MsgInvalidArgs

\* The string the loop feeds back for a call, and the _record_tool_result
\* entries execute_tool_call has written for it.
FedBack(how) ==
  IF how \in RefusedEnds THEN FailText(RefusedMessage(how))
  ELSE OutputText(ExecRaises(how), ExecMessage(how))
Recorded(how, call_id, name) ==
  IF how \in RefusedEnds THEN <<>>
  ELSE <<[call_id |-> IF call_id # "" THEN call_id ELSE name,
          text |-> ExecMessage(how)]>>

\* previous_response_id of a follow-up: the id of the first response.
PreviousResponseId_First(resp) == 1

\* previous_response_id=getattr(result, "id", None)
PreviousResponseId(resp) == resp

NoRequest == [sent |-> FALSE, prev |-> 0, input |-> <<>>]

\* The flow has sent a request and awaits the reply; resp counts the
\* responses of the turn and is the id of the latest one.
RoundInit ==
  \E api \in {"chat", "responses"}, n \in 1..MaxChain :
    FnInit([op |-> "round", api |-> api, N |-> n, depth |-> 0,
            stage |-> "await", resp |-> 0, calls |-> <<>>, i |-> 0,
            entry |-> <<>>, outputs |-> <<>>, log |-> <<>>,
            request |-> NoRequest])

\* The awaited reply arrives.  The bookkeeping of the round before (items,
\* log entries, the request) is dropped from the state.
RoundReply ==
  /\ fn.op = "round" /\ fn.stage = "await"
  /\ \E r \in RoundReplies :
       fn' = [fn EXCEPT !.stage = "inspect", !.resp = fn.resp + 1,
                        !.calls = r, !.i = 0, !.entry = <<>>,
                        !.outputs = <<>>, !.log = <<>>,
                        !.request = NoRequest]
  /\ UNCHANGED offFn

\* The top of the loop body: no calls, the depth limit, or a tool round.
\* At the limit the Responses loop answers every call with the halt text and
\* submits; the chat loop returns.  Otherwise the chat loop appends the
\* assistant entry that lists every call.
RoundInspect ==
  /\ fn.op = "round" /\ fn.stage = "inspect"
  /\ fn' =
       IF fn.calls = <<>> THEN [fn EXCEPT !.stage = "done"]
       ELSE IF DepthLimitReached(fn.depth, fn.N)
         THEN IF fn.api = "chat" THEN [fn EXCEPT !.stage = "done"]
              ELSE LET halted ==
                         [k \in DOMAIN fn.calls |->
                            [type |-> "function_call_output",
                             call_id |-> IF fn.calls[k].id # ""
                                           THEN fn.calls[k].id
                                         ELSE IdxNames[k],
                             text |-> HaltedDepth]]
                   IN [fn EXCEPT !.stage = "done", !.outputs = halted,
                                 !.request =
                                   [sent |-> TRUE,
                                    prev |-> PreviousResponseId(fn.resp),
                                    input |-> halted]]
       ELSE [fn EXCEPT !.stage = "tools", !.i = 1,
                       !.entry = IF fn.api = "chat"
                                   THEN [k \in DOMAIN fn.calls |->
                                           fn.calls[k].id]
                                 ELSE <<>>]
  /\ UNCHANGED offFn

\* One call of the round: skipped when it has no name; else
\* execute_tool_call ends somehow and the loop appends the result item (a
\* tool message in the chat flow), or an exception that is no
\* ToolExecutionError leaves the loop.
RoundCall ==
  /\ fn.op = "round" /\ fn.stage = "tools" /\ fn.i <= Len(fn.calls)
  /\ LET call == fn.calls[fn.i] IN
       IF call.name = ""
         THEN fn' = [fn EXCEPT !.i = fn.i + 1]
       ELSE
         \/ \E how \in RefusedEnds \cup ExecEnds :
              fn' = [fn EXCEPT
                       !.i = fn.i + 1,
                       !.outputs = Append(fn.outputs,
                         [type |-> IF fn.api = "chat" THEN "tool"
                                   ELSE "function_call_output",
                          call_id |-> IF fn.api = "chat" \/ call.id # ""
                                        THEN call.id ELSE call.name,
                          text |-> FedBack(how)]),
                       !.log = fn.log \o Recorded(how, call.id, call.name)]
         \/ fn' = [fn EXCEPT !.stage = "done"]
  /\ UNCHANGED offFn

\* The end of the round: the next request.  The Responses loop returns
\* instead when the round produced no item.
RoundSubmit ==
  /\ fn.op = "round" /\ fn.stage = "tools" /\ fn.i > Len(fn.calls)
  /\ fn' =
       IF fn.api = "responses" /\ fn.outputs = <<>>
         THEN [fn EXCEPT !.stage = "done"]
       ELSE [fn EXCEPT !.stage = "await", !.depth = fn.depth + 1,
                       !.request =
                         [sent |-> TRUE,
                          prev |-> IF fn.api = "responses"
                                     THEN PreviousResponseId(fn.resp) ELSE 0,
                          input |-> fn.outputs]]
  /\ UNCHANGED offFn

RoundNext ==
  \/ RoundReply
  \/ RoundInspect
  \/ RoundCall
  \/ RoundSubmit

RoundSpec == RoundInit /\ [][RoundNext]_vars

\* ---- the exposed-entity cache of one orchestrator
\* Seconds a computed exposure list stays valid.
ExposureTtl == 300
\* How many times the monotonic clock advances between the operations.
MaxAdvances == 3
\* The steps of the clock: within the validity, one second before its end,
\* and its whole length.
Advances == {1, ExposureTtl - 1, ExposureTtl}
\* The entities Home Assistant may expose to the conversation assistant.
ExposableEntities == {"light.kitchen", "switch.fan"}

\* The validity test of the cache extended to the instant of expiry.
CacheValid_AtExpiry(cache, expires, now) ==
  cache.set /\ expires # -1 /\ now <= expires

\* _exposed_entities is not None and _exposed_entities_expires is not None
\* and now < _exposed_entities_expires
CacheValid(cache, expires, now) ==
  cache.set /\ expires # -1 /\ now < expires

NoCache == [set |-> FALSE, value |-> {}]
NoLookup == [made |-> FALSE, value |-> {}, at |-> 0, fresh |-> FALSE,
             had |-> FALSE, age |-> 0, world |-> {}, held |-> {}]

\* __init__: no cache, no expiry.  world is what async_should_expose says
\* now; computed_at and last observe the lookups.
ExposureInit ==
  \E w \in SUBSET ExposableEntities :
    FnInit([op |-> "exposure", now |-> 0, advances |-> 0, world |-> w,
            cache |-> NoCache, expires |-> -1, computed_at |-> -1,
            last |-> NoLookup])

\* time.monotonic() moves on.
ClockAdvance ==
  /\ fn.op = "exposure" /\ fn.advances < MaxAdvances
  /\ \E d \in Advances :
       fn' = [fn EXCEPT !.now = fn.now + d, !.advances = fn.advances + 1]
  /\ UNCHANGED offFn

\* The user changes the exposure settings in the UI.
ExposureChanges ==
  /\ fn.op = "exposure"
  /\ \E w \in SUBSET ExposableEntities :
       w # fn.world /\ fn' = [fn EXCEPT !.world = w]
  /\ UNCHANGED offFn

\* _get_exposed_entities
GetExposedEntities ==
  /\ fn.op = "exposure"
  /\ LET seen == [made |-> TRUE, at |-> fn.now, had |-> fn.cache.set,
                  age |-> IF fn.cache.set THEN fn.now - fn.computed_at ELSE -1,
                  world |-> fn.world, held |-> fn.cache.value]
     IN IF CacheValid(fn.cache, fn.expires, fn.now)
          THEN fn' = [fn EXCEPT
                        !.last = seen @@ [value |-> fn.cache.value,
                                          fresh |-> FALSE]]
        ELSE fn' = [fn EXCEPT
                      !.cache = [set |-> TRUE, value |-> fn.world],
                      !.expires = fn.now + ExposureTtl,
                      !.computed_at = fn.now,
                      !.last = seen @@ [value |-> fn.world, fresh |-> TRUE]]
  /\ UNCHANGED offFn

\* reset()
ExposureReset ==
  /\ fn.op = "exposure"
  /\ fn.cache.set
  /\ fn' = [fn EXCEPT !.cache = NoCache, !.expires = -1, !.computed_at = -1]
  /\ UNCHANGED offFn

ExposureNext ==
  \/ ClockAdvance
  \/ ExposureChanges
  \/ GetExposedEntities
  \/ ExposureReset

ExposureSpec == ExposureInit /\ [][ExposureNext]_vars

\* ---- routing of a turn to one of the two wire APIs
\* The stored model_strategy: the three values of the options form, and a
\* stored value that is none of them.
Strategies == {"auto", "force_chat_completions", "force_responses_api", "other"}
\* The stored use_responses_api option.
ResponsesOptions == {"unset", "true", "false"}

\* bool(options.get(CONF_USE_RESPONSES_API, DEFAULT_USE_RESPONSES_API)), the
\* default being True.
OptionValue(option) == option # "false"

\* The routing without the use_responses_api override.
UseResponses_NoOption(strategy, is_reasoning, option) ==
  IF strategy = "force_chat_completions" THEN FALSE
  ELSE strategy = "force_responses_api" \/ (strategy = "auto" /\ is_reasoning)

\* The three routing statements of the handler, in their order.
UseResponses(strategy, is_reasoning, option) ==
  LET first == \/ strategy = "force_responses_api"
               \/ (strategy = "auto" /\ is_reasoning)
      second == IF strategy = "force_chat_completions" THEN FALSE ELSE first
  IN IF strategy = "auto" /\ ~is_reasoning /\ OptionValue(option)
       THEN TRUE ELSE second

\* The handler has read the options of the entry.
RouteInit ==
  \E strategy \in Strategies, model \in RequestModels,
     option \in ResponsesOptions, n \in 1..MaxChain :
    FnInit([op |-> "route", strategy |-> strategy, model |-> model,
            option |-> option, N |-> n, stage |-> "options",
            use_responses |-> FALSE, flows |-> <<>>, sent |-> <<>>,
            depth |-> 0, result |-> "none"])

\* caps = detect_model_capabilities(model); the routing statements.
Route ==
  /\ fn.op = "route" /\ fn.stage = "options"
  /\ fn' = [fn EXCEPT
              !.stage = "routed",
              !.use_responses =
                UseResponses(fn.strategy,
                             DetectModelCapabilities(
                               [given |-> TRUE, name |-> fn.model]).is_reasoning,
                             fn.option)]
  /\ UNCHANGED offFn

\* if use_responses: _run_responses_flow, else _run_chat_flow.
StartFlow ==
  /\ fn.op = "route" /\ fn.stage = "routed"
  /\ fn' = [fn EXCEPT
              !.stage = "flow",
              !.flows = Append(fn.flows, IF fn.use_responses THEN "responses"
                                         ELSE "chat")]
  /\ UNCHANGED offFn

\* _run_responses_flow: conversation_tools_for_responses raises before the
\* first request, and the handler answers with the error.
ResponsesFlowFails ==
  /\ fn.op = "route" /\ fn.stage = "flow" /\ fn.use_responses
  /\ fn' = [fn EXCEPT !.stage = "done", !.result = "error"]
  /\ UNCHANGED offFn

\* _run_chat_flow sends a Chat Completions request: the first one, or the
\* one that follows a tool round.
ChatFlowRequest ==
  /\ fn.op = "route" /\ fn.stage = "flow" /\ ~fn.use_responses
  /\ Len(fn.sent) <= fn.depth /\ fn.depth <= fn.N
  /\ fn' = [fn EXCEPT !.sent = Append(fn.sent, "chat")]
  /\ UNCHANGED offFn

\* The reply to the latest request: a tool round below the depth limit, a
\* final text, or an exception.
ChatFlowReply ==
  /\ fn.op = "route" /\ fn.stage = "flow" /\ ~fn.use_responses
  /\ Len(fn.sent) = fn.depth + 1
  /\ \/ /\ ~DepthLimitReached(fn.depth, fn.N)
        /\ fn' = [fn EXCEPT !.depth = fn.depth + 1]
     \/ \E r \in {"ok", "error"} :
          fn' = [fn EXCEPT !.stage = "done", !.result = r]
  /\ UNCHANGED offFn

RouteNext ==
  \/ Route
  \/ StartFlow
  \/ ResponsesFlowFails
  \/ ChatFlowRequest
  \/ ChatFlowReply

RouteSpec == RouteInit /\ [][RouteNext]_vars


\* ------------------------------------------------------------- claims
IsFailText(t) == Len(t) >= 2 /\ t[1] = "Tool <name> failed:"
HasOutput(seq, text) == \E i \in DOMAIN seq : seq[i].text = text

C2_CallBudgetEveryK == call_count <= cfg.K

\* C2 (amended): for K >= 1, call_count never exceeds K and every executor
\* start is counted, so at most K executors start; once call_count has reached K, a call of the round is
\* either skipped (no name) or answered with the failure result "Maximum tool
\* calls exceeded", and no executor starts.
C2_CallBudget ==
  [][ /\ cfg.K >= 1 => call_count' <= cfg.K
      /\ (pc = "tools" /\ pc' = "running") => call_count' = call_count + 1
      /\ (pc = "tools" /\ idx <= reply.n /\ cfg.K >= 1 /\ call_count >= cfg.K)
           => /\ pc' = "tools"
              /\ call_count' = call_count
              /\ \/ outputs' = outputs
                 \/ outputs' = Append(outputs,
                       [idx |-> idx, text |-> FailText(MsgMaxCalls)])
    ]_vars

C2_Witness ==
  /\ cfg.K >= 1
  /\ call_count = cfg.K
  /\ HasOutput(outputs, ResultText)
  /\ HasOutput(outputs, FailText(MsgMaxCalls))

\* C3: a native tool call that targets an entity outside the exposed set
\* fails and dispatches no service call for any item of its list.
TargetsOf(it) ==
  IF it.entity # NoEntity /\ it.entity # {} THEN it.entity ELSE ResolveTargets(it.sel)
TargetsHidden == \E i \in DOMAIN nat.items : TargetsOf(nat.items[i]) \ Exposed # {}
C3_HiddenTargetNoSideEffects ==
  (nat.status \in {"returned", "raised"} /\ TargetsHidden)
    => /\ bus = <<>>
       /\ nat.status = "raised" \/ \E i \in DOMAIN nat.result : nat.result[i] = "error"

\* C4: a tool call with malformed arguments yields a textual result for that
\* call; no exception leaves the tool loop for the turn level.
C4_NoArgumentException == failure # "tool_exception"

\* C5: an exception raised while an executor runs becomes the result
\* "Tool <name> failed: <message>" of that call; the loop goes on to the
\* remaining calls and a round with such a result ends in the next request.
C5_ExecutorFailureInBand ==
  [][ /\ pc = "running"
        => /\ pc' = "tools"
           /\ outcome' = "pending"
           /\ idx' = cur + 1
           /\ Len(outputs') = Len(outputs) + 1
           /\ outputs'[Len(outputs')].idx = cur
           /\ lastExec' # "ok" => IsFailText(outputs'[Len(outputs')].text)
      /\ (pc = "tools" /\ idx > reply.n /\ outputs # <<>>)
        => /\ pc' \in AwaitPcs
           /\ requests' = requests + 1
           /\ outcome' = "pending"
    ]_vars

C5_Witness ==
  /\ pc = "tools"
  /\ idx > reply.n
  /\ HasOutput(outputs, FailText(MsgFailedExc))
  /\ HasOutput(outputs, FailText(MsgExecutor))

\* C6: when a reply carries tool calls and the depth counter has reached
\* max_tool_chain, a halted result is submitted for every pending call in
\* exactly one extra request and the turn ends with that reply's text.
C6_DepthLimitOneExtraRequest ==
  /\ (pc = "await_halt" \/ (outcome = "ok" /\ limitHit > 0))
       => requests = limitHit + 1
  /\ pc = "await_halt"
       => /\ Len(outputs) = reply.n
          /\ \A i \in DOMAIN outputs : outputs[i].text = HaltedDepth
  /\ (outcome = "ok" /\ limitHit > 0 /\ reply.text # Empty)
       => finalText = reply.text

\* C7: once a budget is found exceeded during a round, exactly one more
\* model request is made and the turn ends.
C7_OneRequestAfterBudget ==
  /\ budgetHit > 0 => requests <= budgetHit + 1
  /\ (budgetHit > 0 /\ outcome = "ok") => requests = budgetHit + 1

\* C8 (as stated): after a timeout, later calls of the same round are still
\* executed - none of them is refused for the aggregate time budget.
C8_LaterCallsExecuted ==
  \A i, j \in DOMAIN outputs :
    (i < j /\ outputs[i].text = FailText(MsgTimedOut))
      => outputs[j].text # FailText(MsgTimeBudget)

\* C8 (amended): a timed-out execution yields the "timed out" result for
\* that call only and the turn goes on: the loop continues with the next call
\* of the round, or with the next model request when the call was the last;
\* a later call is executed only while both budgets allow it.
C8_TimeoutInBand ==
  [][ /\ (pc = "running" /\ lastExec' = "timeout")
        => /\ pc' = "tools"
           /\ outcome' = "pending"
           /\ idx' = cur + 1
           /\ outputs' = Append(outputs,
                 [idx |-> cur, text |-> FailText(MsgTimedOut)])
           /\ clock' - started >= CallTimeout
      /\ (pc = "tools" /\ lastExec = "timeout" /\ idx > reply.n)
        => pc' \in AwaitPcs /\ requests' = requests + 1 /\ outcome' = "pending"
      /\ (pc = "tools" /\ pc' = "running")
        => /\ cfg.K = 0 \/ call_count < cfg.K
           /\ clock - started <= CallTimeout * cfg.N
    ]_vars

C8_Witness ==
  /\ pc = "running"
  /\ HasOutput(outputs, FailText(MsgTimedOut))

C10_NoEscape == outcome # "escaped"

\* C11: within a turn at most one operation is outstanding: an executor
\* starts only while no execution and no model request is outstanding, for
\* the next call in the order of the reply; while an execution is outstanding
\* or a request is awaited, no model request is issued.
C11_OneOutstanding ==
  [][ /\ (cur' # 0 /\ cur' # cur)
        => /\ cur = 0
           /\ pc = "tools"
           /\ pc' = "running"
           /\ cur' = idx
           /\ idx' = idx
      /\ (pc = "tools" /\ pc' = "tools") => idx' = idx + 1
      /\ pc = "running"
        => /\ cur # 0
           /\ requests' = requests
           /\ pc' \in {"tools", "done"}
           /\ pc' = "tools" => idx' = cur + 1 /\ cur' = 0
      /\ requests' # requests
        => /\ requests' = requests + 1
           /\ cur = 0
           /\ pc \notin AwaitPcs
           /\ pc' \in AwaitPcs
      /\ pc \in AwaitPcs => cur' = 0 /\ pc' \in {"inspect", "done"}
    ]_vars

C11_Witness ==
  /\ pc = "running"
  /\ cur = 2
  /\ Len(outputs) = 1
  /\ requests >= 1

\* C12: the counters and the transcript of a turn start at zero and belong to
\* that turn alone: a step of one invocation leaves the other invocation's
\* call_count, depth and messages as they were, and a call is refused for the
\* call budget only after the invocation itself started max_tool_calls
\* executors.
TurnView(t) ==
  LET f == turns.frame[t] IN
  [call_count |-> IF f.o = 0 THEN 0 ELSE turns.heap[f.o].call_count,
   depth |-> f.depth,
   msgs |-> f.msgs]

C12_FullBudget ==
  \A t \in TurnSlots :
    /\ ~turns.frame[t].starved
    /\ turns.frame[t].pc \notin {"idle", "done"}
         => TurnView(t).call_count = turns.frame[t].ran

C12_TurnStateNotShared ==
  /\ []C12_FullBudget
  /\ [][ \A t \in TurnSlots :
           /\ (t # turns'.last /\ turns.frame[t].pc \notin {"idle", "done"})
                => TurnView(t)' = TurnView(t)
           /\ (turns.frame[t].pc \in {"idle", "done"}
                 /\ turns'.frame[t].pc = "await")
                => TurnView(t)' = [call_count |-> 0, depth |-> 0, msgs |-> 1]
       ]_vars

C12_Witness ==
  /\ turns.K = 1
  /\ \A t \in TurnSlots :
       /\ turns.frame[t].pc = "exec"
       /\ turns.frame[t].ran = 1
       /\ turns.frame[t].depth = 1

\* C13: every tool call of a reply that the loop has gone past has exactly
\* one result in the outputs that are fed back to the model.
C13_OneResultPerCall ==
  /\ pc = "tools" => Len(outputs) = idx - 1
  /\ pc = "running" => Len(outputs) = cur - 1

\* C14: a turn whose orchestrator and client were built, whose model
\* requests all return, whose tool calls raise nothing past the loop and
\* which meets no depth, call or time limit ends with the last reply's text
\* returned unchanged after exactly r + 1 model requests, r being the number
\* of tool rounds (the depth counter); with r = 0 that is one request.
C14_RPlusOneRequests ==
  (/\ pc = "done"
   /\ failure \notin {"orchestrator", "client", "model_request",
                       "tool_exception"}
   /\ limitHit = 0
   /\ budgetHit = 0)
    => /\ requests = depth + 1
       /\ reply.text # Empty => outcome = "ok" /\ finalText = reply.text

\* C15: the text a turn returns to the user is never empty.
C15_FinalTextNonEmpty == outcome = "ok" => finalText # Empty

\* C16: a service call with an area_id or device_id and no entity_id, for an
\* existing service: when the loaded entities the selector resolves to are
\* none or include a hidden one, an error payload is returned and nothing is
\* dispatched; otherwise the dispatched call targets exactly those entities
\* and carries no area_id or device_id.
SelectorItemNext ==
  /\ nat.status = "running"
  /\ nat.tool \in {"execute_service", "execute_service_single"}
  /\ nat.i <= Len(nat.items)
  /\ nat.items[nat.i].entity = NoEntity
  /\ nat.items[nat.i].sel # None
  /\ nat.items[nat.i].service

C16_SelectorPath ==
  [][ SelectorItemNext =>
        LET resolved == {e \in Members(nat.items[nat.i].sel) : e \in Loaded}
        IN IF resolved = {} \/ resolved \ Exposed # {}
             THEN /\ bus' = bus
                  /\ nat'.status = "running"
                  /\ nat'.result = Append(nat.result, "error")
           ELSE /\ bus' = Append(bus, [target |-> resolved,
                                       selector |-> None])
                /\ resolved \subseteq Exposed
    ]_vars

\* C17: once the registry is built, no registered tool comes from a
\* declaration without a known function.type, and every declaration of the
\* list that has a name and a known type is registered, whatever the other
\* entries of the list are.
DeclaredList == IF reg.raw # <<>> THEN reg.raw ELSE reg.functions.list
WellFormed(d) == d.shape = "dict" /\ d.name # NoName /\ d.type \in Kinds

C17_BadDeclarationsSkipped ==
  reg.status = "ready"
    => /\ \A n \in DOMAIN reg.runtime : reg.runtime[n].type \in Kinds
       /\ \A i \in DOMAIN DeclaredList :
            WellFormed(DeclaredList[i])
              => DeclaredList[i].name \in DOMAIN reg.runtime

\* C18: after the declarations are loaded (built-ins first, then the options'
\* list), every declared name has exactly one spec and one runtime config,
\* both those of the last declaration of that name.
LoadedEntries == DefaultFunctions \o FunctionsOption(reg.functions)
Named(e) == e.shape = "dict" /\ e.name # NoName
LastOf(n) ==
  CHOOSE i \in DOMAIN LoadedEntries :
    /\ Named(LoadedEntries[i]) /\ LoadedEntries[i].name = n
    /\ \A j \in DOMAIN LoadedEntries :
         (Named(LoadedEntries[j]) /\ LoadedEntries[j].name = n) => j <= i

RegisteredWith(spec, runtime) ==
  IF spec.tag \in BridgeKinds
    THEN runtime = [type |-> spec.tag, tag |-> spec.name]
    ELSE runtime.tag = spec.tag

C19_OneRuntimePerSpec ==
  reg.status = "ready"
    => /\ \A p, q \in DOMAIN reg.specs :
            reg.specs[p].name = reg.specs[q].name => p = q
       /\ DOMAIN reg.runtime = {reg.specs[p].name : p \in DOMAIN reg.specs}
       /\ \A p \in DOMAIN reg.specs :
            RegisteredWith(reg.specs[p], reg.runtime[reg.specs[p].name])

\* C20: both projections of a registry are produced and, with the type
\* wrappers stripped and the web-search entry set aside, each lists the
\* registry's specs in the registry's order.
StripWrappers(tools) ==
  LET fs == SelectSeq(tools, LAMBDA t : t.type = "function")
  IN [i \in DOMAIN fs |-> fs[i].function]

C20_ProjectionsAgree ==
  (reg.chat.made /\ reg.resp.made)
    => /\ ~reg.chat.raised
       /\ ~reg.resp.raised
       /\ StripWrappers(reg.chat.tools) = reg.specs
       /\ StripWrappers(reg.resp.tools) = reg.specs

\* C21: a text longer than the cap is fed back with at most cap characters
\* and the marker "(truncated)" at its end; a text at or under the cap is fed
\* back as it is.
EndsWith(t, suffix) ==
  /\ Len(t) >= Len(suffix)
  /\ SubSeq(t, Len(t) - Len(suffix) + 1, Len(t)) = suffix
VisibleMarker == SubSeq(TruncationMarker, 5, Len(TruncationMarker))

ResultText21 ==
  IF fn.how = "raised" THEN FailureOutput(fn.text) ELSE fn.text

C21_ResultCapped ==
  (fn.op = "stringify" /\ fn.done)
    => IF Len(ResultText21) > fn.cap
         THEN Len(fn.out) <= fn.cap /\ EndsWith(fn.out, VisibleMarker)
         ELSE fn.out = ResultText21

\* C22 as stated: is_reasoning exactly when the name begins with gpt-5, o1,
\* o3 or o4.
C22_PrefixOnly ==
  (fn.op = "caps" /\ fn.detected >= 1)
    => (fn.caps.is_reasoning
          <=> /\ fn.model.given
              /\ \E p \in ReasoningPrefixes : StartsWith(fn.model.name, p))

\* C22: detection depends on the model name alone; is_reasoning holds exactly
\* when the lower-cased name begins with gpt-5, o1, o3 or o4 or is
\* gpt-4.1-reasoning (None counts as the empty name); accepts_temperature is
\* its negation; the chat token field is max_completion_tokens exactly for
\* reasoning models, else max_tokens.
ExpectReasoning(model) ==
  /\ model.given
  /\ \/ \E p \in ReasoningPrefixes : StartsWith(Lower(model.name), p)
     \/ Lower(model.name) = <<"g", "p", "t", "-", "4", ".", "1", "-", "r", "e", "a", "s", "o", "n", "i", "n", "g">>

C22_Capabilities ==
  (fn.op = "caps" /\ fn.detected >= 1)
    => /\ fn.caps.is_reasoning <=> ExpectReasoning(fn.model)
       /\ fn.caps.accepts_temperature <=> ~fn.caps.is_reasoning
       /\ fn.caps.chat_max_tokens_param
            = (IF fn.caps.is_reasoning THEN "max_completion_tokens"
               ELSE "max_tokens")
       /\ fn.detected = 2 => fn.again = fn.caps

C22_Witness ==
  /\ fn.op = "caps"
  /\ fn.detected = 2
  /\ fn.model.given
  /\ fn.model.name = <<"G", "P", "T", "-", "5", "-", "m", "i", "n", "i">>
  /\ fn.caps.is_reasoning
  /\ ~fn.caps.accepts_temperature

\* C23: every request sent, the first and each follow-up, carries temperature
\* and top_p only if the capabilities accept temperature, and carries the
\* token-limit field of its API and model class.
TokenField23 ==
  IF fn.api = "responses" THEN "max_output_tokens"
  ELSE IF fn.caps.is_reasoning THEN "max_completion_tokens"
  ELSE "max_tokens"

C23_RequestFields ==
  fn.op = "request"
    => \A i \in DOMAIN fn.sent :
         /\ ("temperature" \in fn.sent[i] \/ "top_p" \in fn.sent[i])
              => fn.caps.accepts_temperature
         /\ TokenField23 \in fn.sent[i]

\* What the payload holds, read off the payload itself.
TextPartsOf(item) ==
  IF item.type = "output_text" THEN <<item.text.v>>
  ELSE Flatten([i \in DOMAIN item.content |->
                  IF item.content[i].type = "output_text"
                    THEN <<item.content[i].text.v>> ELSE <<>>])
PayloadText ==
  LET out == fn.payload.body.output
      parts == Flatten([i \in DOMAIN out |-> TextPartsOf(out[i])])
  IN IF parts = <<>> /\ fn.payload.body.output_text.is
       THEN fn.payload.body.output_text.v
       ELSE Flatten(parts)

\* C24: the result has exactly one choice, whose content is the text parts
\* of the payload joined in order, also for a payload wrapped under
\* "response", and the empty string when there is no text.
C24_ContentIsJoinedText ==
  (fn.op = "adapt" /\ fn.done)
    => /\ fn.result.choices = 1
       /\ fn.result.content = Text(PayloadText)

\* C25: finish_reason is "tool_calls" when at least one tool call was
\* extracted and "stop" when none was, whatever the items carry.
C25_FinishReason ==
  (fn.op = "adapt" /\ fn.done)
    => fn.result.finish_reason
         = (IF fn.result.tool_calls # <<>> THEN "tool_calls" ELSE "stop")

\* The tool calls the payload holds, in order: for each output item the
\* tool_call parts of its content, then the item itself if it is a tool_call
\* item; then the top-level tool_calls.
SourceCallsOf(item) ==
  Flatten([i \in DOMAIN item.content |->
             IF item.content[i].type = "tool_call"
               THEN <<item.content[i].call>> ELSE <<>>])
    \o (IF item.type = "tool_call" THEN <<item.call>> ELSE <<>>)
PayloadCalls ==
  LET out == fn.payload.body.output
  IN Flatten([i \in DOMAIN out |-> SourceCallsOf(out[i])])
       \o fn.payload.body.tool_calls

\* C26: one extracted call per tool_call item of the payload, none dropped
\* and none duplicated, each of type "function" with a non-empty id, the
\* name of its source and JSON arguments with the source's keys.
C26_OneCallPerItem ==
  (fn.op = "adapt" /\ fn.done)
    => /\ Len(fn.result.tool_calls) = Len(PayloadCalls)
       /\ \A i \in DOMAIN fn.result.tool_calls :
            /\ fn.result.tool_calls[i].type = "function"
            /\ fn.result.tool_calls[i].id # ""
            /\ fn.result.tool_calls[i].name = PayloadCalls[i].name
            /\ fn.result.tool_calls[i].arguments.json
            /\ fn.result.tool_calls[i].arguments.keys = PayloadCalls[i].keys

\* C27: a payload that reports usage yields a usage object with
\* prompt_tokens, completion_tokens and total_tokens, all non-negative, with
\* input_tokens as prompt_tokens and output_tokens as completion_tokens.
C27_UsageNormalised ==
  (fn.op = "adapt" /\ fn.done /\ fn.payload.body.usage.dict)
    => LET src == fn.payload.body.usage
           u == fn.result.usage
       IN /\ u.dict
          /\ u.prompt_tokens >= 0
          /\ u.completion_tokens >= 0
          /\ u.total_tokens >= 0
          /\ src.input_tokens >= 0 => u.prompt_tokens = src.input_tokens
          /\ src.output_tokens >= 0 => u.completion_tokens = src.output_tokens

\* C28: a script call is accepted only if exactly one of an inline sequence
\* and a script entity_id is present (in the declaration or in the call);
\* with neither or both it fails with InvalidFunction and nothing is run.
SequencePresent28 ==
  fn.function.sequence = "steps" \/ fn.arguments.sequence = "steps"
ReferencePresent28 == IsScriptEntity(fn.arguments.entity_id)

C28_ExactlyOneOf ==
  (fn.op = "script" /\ fn.stage = "done")
    => (SequencePresent28 = ReferencePresent28
          => fn.outcome = "InvalidFunction")

\* C29: a rest call whose URL is not http(s), whose method is outside the
\* allow-list or whose body is longer than 8192 characters fails with an
\* error before any network request; the body of a call that is sent is
\* sent whole.
BodyOf29 == fn.arguments.body.len
MethodOf29 ==
  Upper(IF fn.arguments.method = "absent" THEN "GET" ELSE fn.arguments.method)

Declaring30(k, v) ==
  {j \in 1..(k - 1) : fn.sequence[j].response_variable = v}
Expected30(k, v) ==
  IF Declaring30(k, v) = {} THEN 0
  ELSE ResultOf(CHOOSE j \in Declaring30(k, v) :
                  \A h \in Declaring30(k, v) : h <= j)

\* C30: the steps start in declared order, each after the one before it has
\* finished; every step sees the results that earlier steps stored under
\* their response_variable; the composite returns the last step's result.
C30_StepsInOrder ==
  fn.op = "composite"
    => /\ \A k \in DOMAIN fn.started : fn.started[k] = k
       /\ \A k \in DOMAIN fn.finished : fn.finished[k] = k
       /\ Len(fn.started) - Len(fn.finished) \in {0, 1}
       /\ fn.stage = "await" <=> (/\ Len(fn.started) = Len(fn.finished) + 1
                                  /\ fn.error = "")
       /\ \A k \in DOMAIN fn.seen :
            \A v \in BagNames : fn.seen[k][v] = Expected30(k, v)
       /\ (fn.stage = "done" /\ fn.error = "")
            => /\ Len(fn.finished) = Len(fn.sequence)
               /\ fn.result = ResultOf(Len(fn.sequence))

C30_Witness ==
  /\ fn.op = "composite"
  /\ fn.stage = "done"
  /\ fn.error = ""
  /\ Len(fn.sequence) = MaxSteps
  /\ fn.sequence[1].response_variable = "x"
  /\ fn.sequence[2].response_variable = "x"
  /\ fn.seen[MaxSteps]["x"] = ResultOf(2)
  /\ fn.result = ResultOf(MaxSteps)

\* C31: the memory tool specs are in the registry and in both projections
\* exactly when a memory-service base URL is configured.
MemoryOffered(list) == \E i \in DOMAIN list : list[i].tag = "memory"
MemoryProjected(p) ==
  \E i \in DOMAIN p.tools : p.tools[i].function.tag = "memory"

C31_MemoryOfferedIffUrl ==
  reg.status = "ready"
    => /\ MemoryOffered(reg.specs) <=> reg.memory_url
       /\ reg.chat.made => (MemoryProjected(reg.chat) <=> reg.memory_url)
       /\ reg.resp.made => (MemoryProjected(reg.resp) <=> reg.memory_url)

\* C32: a successful result asks for a follow-up exactly when its text
\* contains a question mark, and keeps the request's conversation_id; an
\* error reply never asks for a follow-up.
HasQuestionMark(t) == \E i \in DOMAIN t : t[i] = "?"

C32_ContinueOnQuestion ==
  (fn.op = "result" /\ fn.done)
    => IF fn.flow = "returned"
         THEN /\ fn.result.kind = "ok"
              /\ fn.result.continue_conversation
                   <=> HasQuestionMark(fn.result.speech)
              /\ fn.result.conversation_id = fn.conversation_id
         ELSE /\ fn.result.kind = "error"
              /\ ~fn.result.continue_conversation

C32_Witness ==
  /\ fn.op = "result"
  /\ fn.done
  /\ fn.flow = "returned"
  /\ fn.text.name = <<"a", "?", "b">>
  /\ fn.conversation_id = "conv-1"
  /\ fn.result.continue_conversation
  /\ fn.result.conversation_id = "conv-1"

\* C33: the time budget of a turn is per_call_timeout x max(1,
\* max_tool_chain) from the start of the turn.  An executor is running only if
\* the elapsed time was within the budget when it started; a call is refused
\* for time only when the elapsed time is past the budget; a running executor
\* is not interrupted by the budget and may end past it.
TimeBudget33 == CallTimeout * (IF cfg.N < 1 THEN 1 ELSE cfg.N)
Elapsed33 == clock - started

C33_TimeBudget ==
  /\ pc = "running" => Elapsed33 <= TimeBudget33
  /\ \A i \in DOMAIN outputs :
       outputs[i].text = FailText(MsgTimeBudget) => Elapsed33 > TimeBudget33

\* An executor that started within the budget has ended past it, and the
\* next call of the round was refused for time.
C33_Witness ==
  /\ pc = "tools"
  /\ Elapsed33 > TimeBudget33
  /\ call_count >= 2
  /\ \E i \in DOMAIN outputs : outputs[i].text = FailText(MsgTimeBudget)
  /\ \E i \in DOMAIN outputs : outputs[i].text = FailText(MsgTimedOut)

\* C34: in the Responses flow every follow-up request carries the id of the
\* response just before it as previous_response_id, and its input holds only
\* function_call_output items, each answering a call of that response, in
\* the order of the calls and under the call's id when it has one.
AnswersInOrder(items, calls) ==
  \E pick \in [DOMAIN items -> DOMAIN calls] :
    /\ \A a, b \in DOMAIN items : a < b => pick[a] < pick[b]
    /\ \A a \in DOMAIN items :
         calls[pick[a]].id # "" => items[a].call_id = calls[pick[a]].id

C34_FollowUpRequest ==
  (fn.op = "round" /\ fn.api = "responses" /\ fn.request.sent)
    => /\ fn.request.prev = fn.resp
       /\ fn.request.input # <<>>
       /\ \A a \in DOMAIN fn.request.input :
            fn.request.input[a].type = "function_call_output"
       /\ AnswersInOrder(fn.request.input, fn.calls)

\* The second follow-up of a turn answers the second response.
C34_Witness ==
  /\ fn.op = "round"
  /\ fn.api = "responses"
  /\ fn.request.sent
  /\ fn.resp = 2
  /\ fn.request.prev = 2
  /\ Len(fn.request.input) = 2
  /\ fn.request.input[2].call_id = "call_2"

\* C35: every tool result string fed back to the model in the next request
\* (success, executor failure, timeout, unknown tool, invalid arguments,
\* budget exceeded, depth-limit halt) is recorded in the chat log exactly
\* once, under the same call id and with the same text.
LogEntriesFor(item) ==
  {j \in DOMAIN fn.log :
     fn.log[j].call_id = item.call_id /\ fn.log[j].text = item.text}

C35_FedBackIsRecorded ==
  (fn.op = "round" /\ fn.request.sent)
    => \A a \in DOMAIN fn.request.input :
         Cardinality(LogEntriesFor(fn.request.input[a])) = 1

\* C38: the request after a tool round holds exactly one result item per
\* call of the reply, whatever the call's name field, in the order of the
\* calls and under each call's id; in the chat flow the assistant entry that
\* precedes the tool messages lists every call.
C38_OneResultPerCall ==
  (fn.op = "round" /\ fn.request.sent)
    => /\ Len(fn.request.input) = Len(fn.calls)
       /\ \A k \in DOMAIN fn.request.input :
            fn.calls[k].id # "" => fn.request.input[k].call_id = fn.calls[k].id
       /\ fn.api = "chat" => Len(fn.entry) = Len(fn.calls)

\* C36: within one orchestrator the exposed-entity list is computed by a
\* lookup exactly when there is no cached list (first use, or after reset)
\* or the cached one is 300 seconds old or older; every other lookup returns
\* the cached list unchanged, so no lookup returns a list computed 300
\* seconds or more before it.
C36_ExposureCache ==
  (fn.op = "exposure" /\ fn.last.made)
    => /\ fn.last.fresh <=> (~fn.last.had \/ fn.last.age >= ExposureTtl)
       /\ fn.last.fresh => fn.last.value = fn.last.world
       /\ ~fn.last.fresh
            => fn.last.value = fn.last.held /\ fn.last.age < ExposureTtl

\* A lookup one second before expiry returned the cached list although the
\* exposure had changed since it was computed.
C36_Witness ==
  /\ fn.op = "exposure"
  /\ fn.last.made
  /\ ~fn.last.fresh
  /\ fn.last.age = ExposureTtl - 1
  /\ fn.last.value # fn.last.world

\* C37: the flow of a turn is decided by the strategy, the reasoning class
\* of the model and the use_responses_api option alone: force_chat_completions
\* runs the chat flow, force_responses_api the Responses flow, auto the
\* Responses flow exactly when the model is reasoning-class or the option is
\* true; one flow is started per turn and every request of the turn goes to
\* the API of that flow.
IsReasoning37 ==
  DetectModelCapabilities([given |-> TRUE, name |-> fn.model]).is_reasoning
Routed37 ==
  CASE fn.strategy = "force_chat_completions" -> "chat"
    [] fn.strategy = "force_responses_api" -> "responses"
    [] fn.strategy = "auto" ->
         IF IsReasoning37 \/ fn.option # "false" THEN "responses" ELSE "chat"
    [] OTHER -> "chat"

C37_OneFlowPerTurn ==
  (fn.op = "route" /\ fn.stage \in {"flow", "done"})
    => /\ fn.flows = <<Routed37>>
       /\ \A k \in DOMAIN fn.sent : fn.sent[k] = Routed37

\* An auto turn with a model that is not reasoning-class and the option
\* switched off has sent its second Chat Completions request.
C37_Witness ==
  /\ fn.op = "route"
  /\ fn.strategy = "auto"
  /\ ~IsReasoning37
  /\ fn.option = "false"
  /\ fn.flows = <<"chat">>
  /\ Len(fn.sent) = 2

\* C39: call_count grows by exactly one in every execute_tool_call
\* invocation that passes the call budget and the time budget, whatever
\* happens to the call afterwards (unknown tool, invalid arguments, timeout,
\* executor error, success), and changes in no other step of the turn: not
\* when a call is refused or skipped, and not while or after an executor,
\* composite or other, runs.
Invocation39 ==
  /\ pc = "tools"
  /\ idx <= reply.n
  /\ \/ pc' = "running"
     \/ pc' = "done"
     \/ Len(outputs') = Len(outputs) + 1
Admitted39 ==
  /\ ~(cfg.K # 0 /\ call_count >= cfg.K)
  /\ ~(clock - started > CallTimeout * (IF cfg.N < 1 THEN 1 ELSE cfg.N))

C39_CallCount ==
  [][ /\ (Invocation39 /\ Admitted39) => call_count' = call_count + 1
      /\ (pc # "idle" /\ ~(Invocation39 /\ Admitted39))
           => call_count' = call_count
    ]_vars

\* The first round of a turn held two calls: one named no registered tool,
\* the other timed out; both were counted.
C39_Witness ==
  /\ requests = 1
  /\ pc = "tools"
  /\ call_count = 2
  /\ HasOutput(outputs, FailText(MsgUnknown))
  /\ HasOutput(outputs, FailText(MsgTimedOut))

\* C40: a service call whose argument names entity_id explicitly (a string,
\* a comma separated string or a list, the empty list included) reaches the
\* service bus only with a non-empty target list whose members all exist and
\* are exposed, and the dispatched call carries no area_id or device_id.
ExplicitDispatch40 ==
  /\ nat.status = "running"
  /\ nat.i <= Len(nat.items)
  /\ nat.items[nat.i].entity # NoEntity
  /\ Len(bus') = Len(bus) + 1

C40_ExplicitEntityDispatch ==
  [][ ExplicitDispatch40
        => LET call == bus'[Len(bus')] IN
           /\ call.target # {}
           /\ call.target \subseteq (Loaded \cap Exposed)
           /\ call.selector = None
    ]_vars

====
